---- MODULE Spec2Model ----
(***************************************************************************)
(* MitsukeLive: the detection loop of DetectionController.                  *)
(*                                                                          *)
(* Two revisions of the controller are modelled side by side:               *)
(*   Legacy      src/src/lib/detection-controller.ts  (pause on detection)  *)
(*   Continuous  src/unnamed/part_014                 (continuous detection)*)
(* The revision is fixed at construction (variable `variant`).              *)
(*                                                                          *)
(* Scheduling.  The loop is one chain of requestAnimationFrame callbacks.   *)
(* An attempt suspends three times:                                         *)
(*   pc = "inference"  await this.yoloInference.predict(...): the           *)
(*                     asynchronous inference; any event may occur;         *)
(*   pc = "results"    the continuation of detectObjects is a queued        *)
(*                     promise job;                                         *)
(*   pc = "unwind"     the continuation of detectionLoop (catch/finally    *)
(*                     and the next requestAnimationFrame) is a queued      *)
(*                     promise job.                                         *)
(* While a promise job is queued, timers, frame callbacks and media events  *)
(* (tasks) cannot run; calls made from other promise continuations          *)
(* (pause, resume, dispose) still can.                                      *)
(***************************************************************************)
EXTENDS Integers, Naturals, Sequences, FiniteSets, TLC

\* ---------------------------------------------------------------- constants
DEFAULT_INFERENCE_INTERVAL_MS == 500
RESUME_DELAY_MS == 1000
RADIANS_TO_DEGREES == 57 \* 180 / Math.PI, rounded down

\* ------------------------------------------------------------------- bounds
TickMs == 500            \* granularity of the clock
StartTime == 1000        \* Date.now() at construction (>= every interval)
MaxTicks == 3            \* the clock stops after this many ticks
MaxDetections == 2       \* detections a frame can yield
MaxResumeCalls == 2      \* resume() calls in one behaviour
MaxInflight == 2         \* attempts that may overlap before the model stops
MaxPipelineAttempts == 4 \* attempts run through the tensor pipeline
MaxSlots == 2            \* detection slots in the model output
MaxPredictions == 2      \* detections passed to transformToCanvas
MaxDimension == 4        \* largest video or canvas width or height
MaxNameLen == 2          \* characters of a class name
MaxBoxes == 2            \* detections passed to a batch estimation wrapper
SqrtScale == 10          \* Math.sqrt is exact to 1/SqrtScale, rounded down
MaxRegistryCalls == 2    \* registry and estimation calls in one behaviour

\* ------------------------------------------------------------------- values
Legacy == "legacy"
Continuous == "continuous"

IDLE == "idle"
PROCESSING == "processing"
PAUSED == "paused"
DETECTION_PAUSED == "detection_paused"

DetectionState ==
  {IDLE, PROCESSING, PAUSED, DETECTION_PAUSED}

ErrorKinds == {"none", "fatal", "nonFatal", "unexpected"}

\* options.inferenceInterval as passed by the caller; 0 stands for "not given"
IntervalOptions == {0, 1000}

\* the argument of pause(): none (default parameter), {pauseCamera:true},
\* {pauseCamera:false}, {} (pauseCamera undefined)
PauseOptions == {"none", "true", "false", "empty"}

VARIABLES
  variant,                \* which revision of the controller
  enable3D,               \* this.enable3D (Continuous)
  detectionIntervalMs,    \* this.detectionIntervalMs
  initStatus,             \* "constructed" | "running" | "denied" | "failed"
  initOutcome,            \* what initialize() did: callbacks, rejection
  detectionState,         \* this.detectionState
  lastDetectionTimestamp, \* this.lastDetectionTimestamp
  cameraManager,          \* this.cameraManager !== null
  canvasManager,          \* this.canvasManager !== null
  animationFrameId,       \* 0 = null, 1 = id of the latest request
  framePending,           \* the latest requested frame callback is queued
  videoPaused,            \* video.paused
  now,                    \* Date.now()
  timers,                 \* deadlines of pending resetToIdleState timers
  pendingPlays,           \* resume() calls awaiting video.play()
  resumeCalls,            \* number of resume() calls so far
  inflight,               \* attempts between PROCESSING and their unwinding
  justUnwound,            \* the attempt unwound by the latest step, if any
  justStarted,            \* what the gate saw, if the latest step started one
  justPaused,             \* the pause(options) call made by the latest step
  rethrown,               \* an error escaped the frame callback
  lastStart,              \* start of the latest attempt since the last reset
  pausedSinceResume,      \* a pause() happened and no resume() call since
  settleUntil,            \* latest resume() on a paused controller + 1000ms
  disposed,               \* dispose() has been called
  tpc,                    \* position inside preprocessVideoFrameAndPredict
  tensors,                \* the tensors of the attempt: created, disposals
  texc,                   \* the exception that is propagating, or "none"
  tAttempts,              \* attempts run by the tensor pipeline
  args,                   \* the arguments of a helper function under test
  result                  \* what the helper function returned

config == <<variant, enable3D, detectionIntervalMs>>
ctrl == <<detectionState, lastDetectionTimestamp, cameraManager, canvasManager,
          animationFrameId, framePending>>
envv == <<videoPaused, now, timers, pendingPlays, resumeCalls>>
hist == <<rethrown, lastStart, pausedSinceResume, settleUntil, disposed>>
trans == <<justUnwound, justStarted, justPaused>>
init == <<initStatus, initOutcome>>
controller == <<config, init, ctrl, envv, inflight, hist, trans>>
pipeline == <<tpc, tensors, texc, tAttempts>>
pure == <<pipeline, args, result>>
vars == <<controller, pure>>

NoTime == 0 - 1

NoAttempt ==
  [valid |-> FALSE, error |-> "none", n |-> 0, cbCalls |-> 0, cbArg |-> "none",
   autoPaused |-> FALSE, pausedDuring |-> FALSE, videoPauseCalled |-> FALSE,
   cbWhilePaused |-> FALSE, predicted |-> FALSE, enrichFailed |-> FALSE,
   beforeFinally |-> IDLE, thrown |-> FALSE]

NoStart ==
  [valid |-> FALSE, gateState |-> IDLE, elapsed |-> 0, sincePrev |-> NoTime,
   whilePaused |-> FALSE]

\* ------------------------------------------------------------- constructor
constructorInterval(opt) ==
  IF opt # 0 THEN opt ELSE DEFAULT_INFERENCE_INTERVAL_MS

NoPauseCall ==
  [valid |-> FALSE, option |-> "none", videoPauseCalled |-> FALSE]

\* initialize() has not been called
NotInitialized ==
  [setup |-> "none", ready |-> 0, notAllowed |-> 0, loop |-> FALSE,
   rejected |-> FALSE]

\* no tensor exists before the first attempt
NoTensors ==
  [input |-> [created |-> FALSE, disposed |-> 0],
   results |-> [created |-> FALSE, disposed |-> 0],
   squeezed |-> [created |-> FALSE, disposed |-> 0]]

PipelineIdle ==
  /\ tpc = "idle"
  /\ tensors = NoTensors
  /\ texc = "none"
  /\ tAttempts = 0

NoArgs ==
  [fn |-> "none"]

NoResult ==
  [fn |-> "none"]

PureIdle ==
  /\ PipelineIdle
  /\ args = NoArgs
  /\ result = NoResult

\* the fields of a controller after construction
Constructed ==
  /\ initStatus = "constructed"
  /\ initOutcome = NotInitialized
  /\ detectionState = IDLE
  /\ lastDetectionTimestamp = 0
  /\ cameraManager = FALSE
  /\ canvasManager = FALSE
  /\ animationFrameId = 0
  /\ framePending = FALSE
  /\ videoPaused = FALSE
  /\ now = StartTime
  /\ timers = <<>>
  /\ pendingPlays = 0
  /\ resumeCalls = 0
  /\ inflight = <<>>
  /\ justUnwound = NoAttempt
  /\ justStarted = NoStart
  /\ justPaused = NoPauseCall
  /\ rethrown = FALSE
  /\ lastStart = NoTime
  /\ pausedSinceResume = FALSE
  /\ settleUntil = NoTime
  /\ disposed = FALSE

Init ==
  /\ variant \in {Legacy, Continuous}
  /\ enable3D \in BOOLEAN
  /\ (variant = Legacy => enable3D = FALSE)
  /\ \E opt \in IntervalOptions : detectionIntervalMs = constructorInterval(opt)
  /\ Constructed
  /\ PureIdle

\* ------------------------------------------------------------ event loop
\* a promise job of an attempt is queued: tasks cannot run
MicrotaskPending ==
  \E i \in DOMAIN inflight : inflight[i].pc \in {"results", "unwind"}

\* ------------------------------------------------------------- the gate
\* variant of the gate that forgets the interval
shouldExecuteDetection_stateOnly(currentTime) ==
  detectionState = IDLE

shouldExecuteDetection(currentTime) ==
  /\ detectionState = IDLE
  /\ currentTime - lastDetectionTimestamp >= detectionIntervalMs

\* the record of an attempt.  ready: the camera and canvas managers exist;
\* without them getCachedCropRegion throws before the first await, and the
\* rejection reaches the catch block of detectionLoop as a promise job
NewAttempt(ready) ==
  [pc |-> IF ready THEN "inference" ELSE "unwind",
   error |-> IF ready THEN "none" ELSE "fatal",
   n |-> 0, cbCalls |-> 0, cbArg |-> "none",
   autoPaused |-> FALSE, pausedDuring |-> FALSE, videoPauseCalled |-> FALSE,
   cbWhilePaused |-> FALSE, predicted |-> FALSE, enrichFailed |-> FALSE]

\* what the gate saw when it let an attempt start at currentTime
GateSaw(currentTime) ==
  [valid |-> TRUE,
   gateState |-> detectionState,
   elapsed |-> currentTime - lastDetectionTimestamp,
   sincePrev |-> IF lastStart = NoTime THEN NoTime ELSE currentTime - lastStart,
   whilePaused |-> pausedSinceResume]

\* variant of detectionLoop that requests the next frame before it awaits
\* detectObjects
detectionLoop_earlyFrame(currentTime, ready) ==
  IF shouldExecuteDetection(currentTime)
  THEN /\ Len(inflight) < MaxInflight
       /\ detectionState' = PROCESSING
       /\ lastDetectionTimestamp' = currentTime
       /\ inflight' = Append(inflight, NewAttempt(ready))
       /\ lastStart' = currentTime
       /\ justStarted' = GateSaw(currentTime)
       /\ framePending' = TRUE
       /\ animationFrameId' = 1
  ELSE /\ framePending' = TRUE
       /\ animationFrameId' = 1
       /\ justStarted' = NoStart
       /\ UNCHANGED <<detectionState, lastDetectionTimestamp, inflight,
                      lastStart>>

\* detectionLoop up to its first suspension (or to its end when the gate
\* is closed)
detectionLoop(currentTime, ready) ==
  IF shouldExecuteDetection(currentTime)
  THEN /\ Len(inflight) < MaxInflight
       /\ detectionState' = PROCESSING
       /\ lastDetectionTimestamp' = currentTime
       /\ inflight' = Append(inflight, NewAttempt(ready))
       /\ lastStart' = currentTime
       /\ justStarted' = GateSaw(currentTime)
       /\ framePending' = FALSE
       /\ UNCHANGED animationFrameId
  ELSE /\ framePending' = TRUE
       /\ animationFrameId' = 1
       /\ justStarted' = NoStart
       /\ UNCHANGED <<detectionState, lastDetectionTimestamp, inflight,
                      lastStart>>

\* ------------------------------------------------------------- initialize
\* CameraManager.setup: onCameraReady is called once, just before the promise
\* resolves; getUserMedia rejects before that
setupCamera(outcome) ==
  [ready |-> IF outcome = "ok" THEN 1 ELSE 0]

\* variant of initialize without the NotAllowedError branch
initialize_rethrowAll(outcome) ==
  IF outcome = "ok"
  THEN [status |-> "running", notAllowed |-> 0, loop |-> TRUE,
        rejected |-> FALSE]
  ELSE [status |-> "failed", notAllowed |-> 0, loop |-> FALSE,
        rejected |-> TRUE]

\* initialize after the backend and the model are loaded: the try statement
\* around setupCamera, then setupCanvas and startDetectionLoop
initialize(outcome) ==
  IF outcome = "ok"
  THEN [status |-> "running", notAllowed |-> 0, loop |-> TRUE,
        rejected |-> FALSE]
  ELSE IF outcome = "notAllowed"
  THEN [status |-> "denied", notAllowed |-> 1, loop |-> FALSE,
        rejected |-> FALSE]
  ELSE [status |-> "failed", notAllowed |-> 0, loop |-> FALSE,
        rejected |-> TRUE]

Initialize ==
  /\ initStatus = "constructed"
  /\ \E outcome \in {"ok", "notAllowed", "error"} :
       LET r == initialize(outcome)
       IN  /\ initStatus' = r.status
           /\ initOutcome' =
                [setup |-> outcome, ready |-> setupCamera(outcome).ready,
                 notAllowed |-> r.notAllowed, loop |-> r.loop,
                 rejected |-> r.rejected]
           /\ IF r.loop
              THEN /\ cameraManager' = TRUE
                   /\ canvasManager' = TRUE
                   /\ detectionLoop(now, TRUE)
              ELSE /\ justStarted' = NoStart
                   /\ UNCHANGED <<ctrl, inflight, lastStart>>
  /\ justUnwound' = NoAttempt
  /\ UNCHANGED <<config, envv, rethrown, pausedSinceResume, settleUntil,
                 disposed>>
  /\ justPaused' = NoPauseCall
  /\ UNCHANGED pure

\* ------------------------------------------------------ the frame callback
FrameCallback ==
  /\ framePending
  /\ ~MicrotaskPending
  /\ detectionLoop(now, cameraManager /\ canvasManager)
  /\ justUnwound' = NoAttempt
  /\ UNCHANGED <<config, init, cameraManager, canvasManager, envv,
                 rethrown, pausedSinceResume, settleUntil, disposed>>
  /\ justPaused' = NoPauseCall
  /\ UNCHANGED pure

\* no attempt starts or unwinds in this step
Quiet ==
  /\ justUnwound' = NoAttempt
  /\ justStarted' = NoStart

\* ------------------------------------------------- the inference completes
\* preprocessVideoFrameAndPredict settles: with n detections, or with an error
PredictDone ==
  \E i \in DOMAIN inflight :
    /\ inflight[i].pc = "inference"
    /\ \E err \in ErrorKinds, n \in 0..MaxDetections :
         /\ err # "none" => n = 0
         /\ inflight' =
              [inflight EXCEPT ![i] =
                 [@ EXCEPT !.pc = IF err = "none" THEN "results" ELSE "unwind",
                           !.error = err, !.n = n,
                           !.predicted = (err = "none")]]
    /\ Quiet
    /\ UNCHANGED <<config, init, ctrl, envv, hist>>
    /\ justPaused' = NoPauseCall
    /\ UNCHANGED pure

\* ------------------------------------------------------------------ pause
\* options.pauseCamera of pause(options = { pauseCamera: true })
pauseCamera(opt) ==
  IF variant = Legacy THEN TRUE
  ELSE IF opt = "none" THEN TRUE
  ELSE IF opt = "true" THEN TRUE
  ELSE FALSE

pauseState(opt) ==
  IF pauseCamera(opt) THEN PAUSED ELSE DETECTION_PAUSED

IsPausedState(s) ==
  s \in {PAUSED, DETECTION_PAUSED}

\* every attempt in flight sees the pause or dispose transition
MarkPaused(seq, videoCalled) ==
  [j \in DOMAIN seq |->
     [seq[j] EXCEPT !.pausedDuring = TRUE,
                    !.videoPauseCalled = @ \/ videoCalled]]

Pause ==
  /\ initStatus # "constructed"
  /\ \E opt \in PauseOptions :
       /\ variant = Legacy => opt = "none"
       /\ detectionState' = pauseState(opt)
       /\ videoPaused' = (videoPaused \/ (pauseCamera(opt) /\ cameraManager))
       /\ inflight' = MarkPaused(inflight, pauseCamera(opt) /\ cameraManager)
       /\ justPaused' =
            [valid |-> TRUE, option |-> opt,
             videoPauseCalled |-> pauseCamera(opt) /\ cameraManager]
  /\ pausedSinceResume' = TRUE
  /\ Quiet
  /\ UNCHANGED <<config, init, lastDetectionTimestamp, cameraManager,
                 canvasManager, animationFrameId, framePending, now, timers,
                 pendingPlays, resumeCalls, rethrown, lastStart, settleUntil,
                 disposed>>
  /\ UNCHANGED pure

\* ------------------------------------------------------ detection results
\* what handleDetectionResults does with n detections: the argument of
\* onDetection ("none": not called), whether this.pause() follows, and whether
\* this.canvas is read before the callback.
\* variant of the pause-on-detection handler without its pause
legacyHandleDetectionResults_noPause(n) ==
  IF n > 0
  THEN [notify |-> "first", pause |-> FALSE, needsCanvas |-> FALSE]
  ELSE [notify |-> "none", pause |-> FALSE, needsCanvas |-> FALSE]

\* handleDetectionResults of the pause-on-detection revision
legacyHandleDetectionResults(n) ==
  IF n > 0
  THEN [notify |-> "first", pause |-> TRUE, needsCanvas |-> FALSE]
  ELSE [notify |-> "none", pause |-> FALSE, needsCanvas |-> FALSE]

\* variant of the continuous handler without the else branch (no null signal)
handleDetectionResults_noNull(n) ==
  IF n > 0
  THEN [notify |-> "first", pause |-> FALSE, needsCanvas |-> enable3D]
  ELSE [notify |-> "none", pause |-> FALSE, needsCanvas |-> FALSE]

\* handleDetectionResults of the continuous revision
handleDetectionResults(n) ==
  IF n > 0
  THEN [notify |-> "first", pause |-> FALSE, needsCanvas |-> enable3D]
  ELSE [notify |-> "null", pause |-> FALSE, needsCanvas |-> FALSE]

\* the continuation of detectObjects: handleDetectionResults, then
\* this.canvas / this.canvasContext and clearRect.  enrichThrows: estimate3DInfo
\* rejects the bounding box or the focal length (canvas of width 0)
Results ==
  \E i \in DOMAIN inflight, enrichThrows \in BOOLEAN :
    /\ inflight[i].pc = "results"
    /\ LET a == inflight[i]
           h == IF variant = Legacy THEN legacyHandleDetectionResults(a.n)
                ELSE handleDetectionResults(a.n)
           throwBefore == h.needsCanvas /\ (~canvasManager \/ enrichThrows)
           notified == h.notify # "none" /\ ~throwBefore
           paused == h.pause /\ ~throwBefore
           pauseThrows == paused /\ ~cameraManager
           canvasThrows == ~throwBefore /\ ~pauseThrows /\ ~canvasManager
           videoCalled == paused /\ cameraManager
           marked == IF paused THEN MarkPaused(inflight, videoCalled)
                     ELSE inflight
       IN  /\ detectionState' = IF paused THEN pauseState("none")
                                ELSE detectionState
           /\ videoPaused' = (videoPaused \/ videoCalled)
           /\ pausedSinceResume' = (pausedSinceResume \/ paused)
           /\ inflight' =
                [marked EXCEPT ![i] =
                   [@ EXCEPT !.pc = "unwind",
                             !.cbCalls = IF notified THEN @ + 1 ELSE @,
                             !.cbArg = IF notified THEN h.notify ELSE @,
                             !.cbWhilePaused =
                               notified /\ IsPausedState(detectionState),
                             !.autoPaused = paused,
                             !.enrichFailed = throwBefore,
                             !.error =
                               IF throwBefore \/ pauseThrows \/ canvasThrows
                               THEN "fatal" ELSE "none"]]
    /\ Quiet
    /\ UNCHANGED <<config, init, lastDetectionTimestamp, cameraManager,
                   canvasManager, animationFrameId, framePending, now, timers,
                   pendingPlays, resumeCalls, rethrown, lastStart, settleUntil,
                   disposed>>
    /\ justPaused' = NoPauseCall
    /\ UNCHANGED pure

\* ---------------------------------------------------------- error handling
\* variant of handleDetectionError whose fatal handler does not re-throw
handleDetectionError_noRethrow(error) ==
  [pause |-> error = "fatal", rethrow |-> FALSE]

\* handleDetectionError: does it call this.pause(), does it re-throw
handleDetectionError(error) ==
  [pause |-> error = "fatal", rethrow |-> error = "fatal"]

\* variant of the finally block that always resets the state
finallyState_always(s) ==
  IDLE

\* the finally block of detectionLoop
finallyState(s) ==
  IF s = PROCESSING THEN IDLE ELSE s

\* variant of detectionLoop that never requests the next frame
reschedules_never(thrown) ==
  FALSE

\* requestAnimationFrame(detectionLoop) after the try statement: reached
\* unless the catch block threw
reschedules(thrown) ==
  ~thrown

\* the attempt leaves the set of attempts in flight
RemoveAt(seq, i) ==
  SubSeq(seq, 1, i - 1) \o SubSeq(seq, i + 1, Len(seq))

\* the continuation of detectionLoop: catch, finally, requestAnimationFrame
Unwind ==
  \E i \in DOMAIN inflight :
    /\ inflight[i].pc = "unwind"
    /\ LET a == inflight[i]
           h == IF a.error = "none" THEN [pause |-> FALSE, rethrow |-> FALSE]
                ELSE handleDetectionError(a.error)
           videoCalled == h.pause /\ cameraManager
           thrown == h.rethrow \/ (h.pause /\ ~cameraManager)
           afterCatch == IF h.pause THEN pauseState("none") ELSE detectionState
           rest == RemoveAt(inflight, i)
       IN  /\ detectionState' = finallyState(afterCatch)
           /\ videoPaused' = (videoPaused \/ videoCalled)
           /\ pausedSinceResume' = (pausedSinceResume \/ h.pause)
           /\ rethrown' = (rethrown \/ thrown)
           /\ framePending' = (framePending \/ reschedules(thrown))
           /\ animationFrameId' =
                IF reschedules(thrown) THEN 1 ELSE animationFrameId
           /\ inflight' = IF h.pause THEN MarkPaused(rest, videoCalled)
                          ELSE rest
           /\ justUnwound' =
                [valid |-> TRUE, error |-> a.error, n |-> a.n,
                 cbCalls |-> a.cbCalls, cbArg |-> a.cbArg,
                 autoPaused |-> a.autoPaused,
                 pausedDuring |-> a.pausedDuring \/ h.pause,
                 videoPauseCalled |-> a.videoPauseCalled \/ videoCalled,
                 cbWhilePaused |-> a.cbWhilePaused,
                 predicted |-> a.predicted,
                 enrichFailed |-> a.enrichFailed,
                 beforeFinally |-> afterCatch,
                 thrown |-> thrown]
    /\ justStarted' = NoStart
    /\ UNCHANGED <<config, init, lastDetectionTimestamp, cameraManager,
                   canvasManager, now, timers, pendingPlays, resumeCalls,
                   lastStart, settleUntil, disposed>>
    /\ justPaused' = NoPauseCall
    /\ UNCHANGED pure

\* ----------------------------------------------------------------- resume
Resume ==
  /\ initStatus # "constructed"
  /\ resumeCalls < MaxResumeCalls
  /\ resumeCalls' = resumeCalls + 1
  /\ pausedSinceResume' = FALSE
  /\ IF ~cameraManager
     THEN \* this.video throws: nothing is scheduled
          UNCHANGED <<videoPaused, pendingPlays, timers, settleUntil>>
     ELSE /\ settleUntil' =
               IF IsPausedState(detectionState) THEN now + RESUME_DELAY_MS
               ELSE settleUntil
          /\ IF videoPaused
             THEN /\ pendingPlays' = pendingPlays + 1
                  /\ \E played \in BOOLEAN : videoPaused' = ~played
                  /\ UNCHANGED timers
             ELSE /\ timers' = Append(timers, now + RESUME_DELAY_MS)
                  /\ UNCHANGED <<videoPaused, pendingPlays>>
  /\ Quiet
  /\ UNCHANGED <<config, init, ctrl, now, inflight, rethrown, lastStart,
                 disposed>>
  /\ justPaused' = NoPauseCall
  /\ UNCHANGED pure

\* video.play() settles (resolved or rejected): the finally block sets the timer
PlaySettles ==
  /\ pendingPlays > 0
  /\ ~MicrotaskPending
  /\ pendingPlays' = pendingPlays - 1
  /\ timers' = Append(timers, now + RESUME_DELAY_MS)
  /\ Quiet
  /\ UNCHANGED <<config, init, ctrl, videoPaused, now, resumeCalls,
                 inflight, hist>>
  /\ justPaused' = NoPauseCall
  /\ UNCHANGED pure

\* variant of the timer callback of resume that also requests a frame
TimerFires_restartsLoop ==
  /\ timers # <<>>
  /\ Head(timers) <= now
  /\ ~MicrotaskPending
  /\ timers' = Tail(timers)
  /\ lastDetectionTimestamp' = 0
  /\ detectionState' = IDLE
  /\ lastStart' = NoTime
  /\ framePending' = TRUE
  /\ animationFrameId' = 1
  /\ Quiet
  /\ UNCHANGED <<config, init, cameraManager, canvasManager,
                 videoPaused, now, pendingPlays, resumeCalls, inflight,
                 rethrown, pausedSinceResume, settleUntil, disposed>>
  /\ justPaused' = NoPauseCall
  /\ UNCHANGED pure

\* resetToIdleState, run by the timer
TimerFires ==
  /\ timers # <<>>
  /\ Head(timers) <= now
  /\ ~MicrotaskPending
  /\ timers' = Tail(timers)
  /\ lastDetectionTimestamp' = 0
  /\ detectionState' = IDLE
  /\ lastStart' = NoTime
  /\ Quiet
  /\ UNCHANGED <<config, init, cameraManager, canvasManager,
                 animationFrameId, framePending, videoPaused, now,
                 pendingPlays, resumeCalls, inflight, rethrown,
                 pausedSinceResume, settleUntil, disposed>>
  /\ justPaused' = NoPauseCall
  /\ UNCHANGED pure

\* ---------------------------------------------------------------- dispose
Dispose ==
  /\ initStatus # "constructed"
  /\ detectionState' = PAUSED
  /\ framePending' = (IF animationFrameId # 0 THEN FALSE ELSE framePending)
  /\ animationFrameId' = 0
  /\ videoPaused' = (videoPaused \/ cameraManager)
  /\ cameraManager' = FALSE
  /\ canvasManager' = FALSE
  /\ inflight' = MarkPaused(inflight, cameraManager)
  /\ disposed' = TRUE
  /\ Quiet
  /\ UNCHANGED <<config, init, lastDetectionTimestamp, now, timers,
                 pendingPlays, resumeCalls, rethrown, lastStart,
                 pausedSinceResume, settleUntil>>
  /\ justPaused' = NoPauseCall
  /\ UNCHANGED pure

\* ---------------------------------------------------------------- the clock
Tick ==
  /\ now + TickMs <= StartTime + MaxTicks * TickMs
  /\ now' = now + TickMs
  /\ settleUntil' = IF settleUntil # NoTime /\ settleUntil <= now + TickMs
                    THEN NoTime ELSE settleUntil
  /\ Quiet
  /\ UNCHANGED <<config, init, ctrl, videoPaused, timers, pendingPlays,
                 resumeCalls, inflight, rethrown, lastStart, pausedSinceResume,
                 disposed>>
  /\ justPaused' = NoPauseCall
  /\ UNCHANGED pure

Next ==
  \/ Initialize
  \/ FrameCallback
  \/ PredictDone
  \/ Results
  \/ Unwind
  \/ Pause
  \/ Resume
  \/ PlaySettles
  \/ TimerFires
  \/ Dispose
  \/ Tick

Spec == Init /\ [][Next]_vars

\* the loop left to itself: no pause() and no dispose() call
LiveNext ==
  \/ Initialize
  \/ FrameCallback
  \/ PredictDone
  \/ Results
  \/ Unwind
  \/ Resume
  \/ PlaySettles
  \/ TimerFires
  \/ Tick

\* frames keep being delivered, time passes, promise jobs run
LiveSpec ==
  /\ Init
  /\ [][LiveNext]_vars
  /\ WF_vars(FrameCallback)
  /\ WF_vars(Tick)
  /\ WF_vars(PredictDone)
  /\ WF_vars(Results)
  /\ WF_vars(Unwind)

EndTime == StartTime + MaxTicks * TickMs

TypeOK ==
  /\ detectionState \in DetectionState
  /\ Len(inflight) <= MaxInflight
  /\ pendingPlays \in 0..MaxResumeCalls

\* ------------------------------------------------------ the tensor pipeline
\* preprocessVideoFrameAndPredict, YOLOInference.predict and
\* processRawPredictions, one step per statement that can throw.

\* a fixed controller, for the specifications of single functions
FixedController ==
  /\ variant = Continuous
  /\ enable3D = FALSE
  /\ detectionIntervalMs = DEFAULT_INFERENCE_INTERVAL_MS
  /\ Constructed

PipelineInit ==
  /\ FixedController
  /\ PureIdle

Created(t, name) ==
  [t EXCEPT ![name].created = TRUE]

Disposed(t, name) ==
  [t EXCEPT ![name].disposed = @ + 1]

\* tensors that exist and have not been disposed
LiveTensors(t) ==
  {name \in DOMAIN t : t[name].created /\ t[name].disposed = 0}

StartPipeline ==
  /\ tpc \in {"idle", "done"}
  /\ tAttempts < MaxPipelineAttempts
  /\ tAttempts' = tAttempts + 1
  /\ tpc' = "tidy"
  /\ tensors' = NoTensors
  /\ texc' = "none"
  /\ UNCHANGED controller
  /\ UNCHANGED <<args, result>>

\* tf.tidy(...): the batched input tensor, or an exception of TensorFlow.js
\* (the intermediates are released by tidy)
Tidy ==
  /\ tpc = "tidy"
  /\ \E ok \in BOOLEAN :
       IF ok
       THEN /\ tensors' = Created(tensors, "input")
            /\ tpc' = "call"
            /\ UNCHANGED texc
       ELSE /\ texc' = "unexpected"
            /\ tpc' = "preFinally"
            /\ UNCHANGED tensors
  /\ UNCHANGED <<controller, tAttempts>>
  /\ UNCHANGED <<args, result>>

\* the letterbox check, the this.canvas argument and the model check of
\* predict: each throws a fatal MLInternalError
CallPredict ==
  /\ tpc = "call"
  /\ \E ok \in BOOLEAN :
       IF ok
       THEN /\ tpc' = "modelPredict"
            /\ UNCHANGED texc
       ELSE /\ texc' = "fatal"
            /\ tpc' = "preFinally"
  /\ UNCHANGED <<controller, tensors, tAttempts>>
  /\ UNCHANGED <<args, result>>

\* this.model.predict(imageTensor), before the try statement of predict
ModelPredict ==
  /\ tpc = "modelPredict"
  /\ \E ok \in BOOLEAN :
       IF ok
       THEN /\ tensors' = Created(tensors, "results")
            /\ tpc' = "squeeze"
            /\ UNCHANGED texc
       ELSE /\ texc' = "unexpected"
            /\ tpc' = "preFinally"
            /\ UNCHANGED tensors
  /\ UNCHANGED <<controller, tAttempts>>
  /\ UNCHANGED <<args, result>>

\* results.squeeze(), before the try statement of processRawPredictions
Squeeze ==
  /\ tpc = "squeeze"
  /\ \E ok \in BOOLEAN :
       IF ok
       THEN /\ tensors' = Created(tensors, "squeezed")
            /\ tpc' = "decode"
            /\ UNCHANGED texc
       ELSE /\ texc' = "unexpected"
            /\ tpc' = "predictFinally"
            /\ UNCHANGED tensors
  /\ UNCHANGED <<controller, tAttempts>>
  /\ UNCHANGED <<args, result>>

\* the try block of processRawPredictions: the early return for an empty
\* output, arraySync and findValidDetections
Decode ==
  /\ tpc = "decode"
  /\ \E outcome \in {"empty", "decoded", "throws"} :
       texc' = IF outcome = "throws" THEN "unexpected" ELSE "none"
  /\ tpc' = "squeezeFinally"
  /\ UNCHANGED <<controller, tensors, tAttempts>>
  /\ UNCHANGED <<args, result>>

\* the finally block of processRawPredictions
SqueezeFinally ==
  /\ tpc = "squeezeFinally"
  /\ tensors' = Disposed(tensors, "squeezed")
  /\ tpc' = IF texc = "none" THEN "remap" ELSE "predictFinally"
  /\ UNCHANGED <<controller, texc, tAttempts>>
  /\ UNCHANGED <<args, result>>

\* transformToCanvas: fails on an invalid global input (a fatal MLInternalError)
Remap ==
  /\ tpc = "remap"
  /\ \E ok \in BOOLEAN :
       IF ok
       THEN /\ tpc' = "log"
            /\ UNCHANGED texc
       ELSE /\ texc' = "fatal"
            /\ tpc' = "predictFinally"
  /\ UNCHANGED <<controller, tensors, tAttempts>>
  /\ UNCHANGED <<args, result>>

\* logMemoryUsage (and cleanupMemory: tf.disposeVariables releases
\* variables, not the tensors of the attempt)
LogMemoryUsage ==
  /\ tpc = "log"
  /\ tpc' = "predictFinally"
  /\ UNCHANGED <<controller, tensors, texc, tAttempts>>
  /\ UNCHANGED <<args, result>>

\* variant of predict that disposes the output at the end of the try block
predictCleanup_onSuccess(t, threw) ==
  IF threw THEN t ELSE Disposed(t, "results")

\* the finally block of predict
predictCleanup(t, threw) ==
  Disposed(t, "results")

PredictFinally ==
  /\ tpc = "predictFinally"
  /\ tensors' = predictCleanup(tensors, texc # "none")
  /\ tpc' = "preFinally"
  /\ UNCHANGED <<controller, texc, tAttempts>>
  /\ UNCHANGED <<args, result>>

\* the finally block of preprocessVideoFrameAndPredict
PreFinally ==
  /\ tpc = "preFinally"
  /\ tensors' = IF tensors.input.created THEN Disposed(tensors, "input")
                 ELSE tensors
  /\ tpc' = "done"
  /\ UNCHANGED <<controller, texc, tAttempts>>
  /\ UNCHANGED <<args, result>>

PipelineNext ==
  \/ StartPipeline
  \/ Tidy
  \/ CallPredict
  \/ ModelPredict
  \/ Squeeze
  \/ Decode
  \/ SqueezeFinally
  \/ Remap
  \/ LogMemoryUsage
  \/ PredictFinally
  \/ PreFinally

PipelineSpec == PipelineInit /\ [][PipelineNext]_vars

\* ------------------------------------------------------------- the decoder
\* Numbers.  Finite values are small integers; scores and thresholds are in
\* units of 0.5, so ScoreOne is the score 1.0.
NaN == 9001
PosInf == 9002
NegInf == 9003
Missing == 9004          \* an absent property (undefined)
ScoreOne == 2

\* Number.isFinite
IsFinite(v) ==
  v \notin {NaN, PosInf, NegInf, Missing}

Min2(a, b) ==
  IF a <= b THEN a ELSE b

\* data[k]?.length || 0   (k counts from 1)
ArrayLen(data, k) ==
  IF k <= Len(data) THEN Len(data[k]) ELSE 0

\* variant of the slot check that accepts a score equal to the threshold
validSlot_atThreshold(data, i, scoreThreshold) ==
  LET score == data[5][i]
      x == data[1][i]
      y == data[2][i]
      width == data[3][i]
      height == data[4][i]
  IN  /\ ~(~IsFinite(score) \/ score < scoreThreshold)
      /\ ~(\/ ~IsFinite(x)
            \/ ~IsFinite(y)
            \/ ~IsFinite(width)
            \/ ~IsFinite(height)
            \/ width < 0
            \/ height < 0)

\* the score and bounding box checks of slot i
validSlot(data, i, scoreThreshold) ==
  LET score == data[5][i]
      x == data[1][i]
      y == data[2][i]
      width == data[3][i]
      height == data[4][i]
  IN  /\ ~(~IsFinite(score) \/ score <= scoreThreshold)
      /\ ~(\/ ~IsFinite(x)
            \/ ~IsFinite(y)
            \/ ~IsFinite(width)
            \/ ~IsFinite(height)
            \/ width < 0
            \/ height < 0)

\* variant of the angle lookup without the finiteness check
slotAngle_unchecked(data, i) ==
  IF Len(data) >= 6 /\ i <= Len(data[6]) THEN data[6][i] ELSE 0

\* the angle of slot i
slotAngle(data, i) ==
  IF Len(data) >= 6 /\ i <= Len(data[6])
  THEN IF IsFinite(data[6][i]) THEN data[6][i] ELSE 0
  ELSE 0

\* the loop over the slots i..actualDetections; slot is kept to tell the
\* detections apart
RECURSIVE validDetections(_, _, _, _)
validDetections(data, i, actualDetections, scoreThreshold) ==
  IF i > actualDetections THEN <<>>
  ELSE LET rest == validDetections(data, i + 1, actualDetections,
                                   scoreThreshold)
       IN  IF validSlot(data, i, scoreThreshold)
           THEN <<[boundingBox |-> <<data[1][i], data[2][i], data[3][i],
                                     data[4][i]>>,
                   angle |-> slotAngle(data, i),
                   score |-> data[5][i],
                   slot |-> i]>> \o rest
           ELSE rest

\* variant of the comparator that sorts by ascending score
compareDetections_ascending(a, b) ==
  a.score - b.score

\* the comparator passed to sort
compareDetections(a, b) ==
  b.score - a.score

\* Array.prototype.sort is stable: d goes behind every element that does not
\* compare greater than it
RECURSIVE insertDetection(_, _)
insertDetection(sorted, d) ==
  IF sorted = <<>> THEN <<d>>
  ELSE IF compareDetections(Head(sorted), d) <= 0
       THEN <<Head(sorted)>> \o insertDetection(Tail(sorted), d)
       ELSE <<d>> \o sorted

RECURSIVE sortDetections(_)
sortDetections(list) ==
  IF list = <<>> THEN <<>>
  ELSE insertDetection(sortDetections(SubSeq(list, 1, Len(list) - 1)),
                       list[Len(list)])

\* variant of findValidDetections that accepts any threshold
findValidDetections_anyThreshold(data, numDetections, scoreThreshold) ==
  IF \/ Len(data) < 5
     \/ ~IsFinite(numDetections)
     \/ numDetections < 0
  THEN [fn |-> "findValidDetections", list |-> <<>>, examined |-> 0]
  ELSE LET minRequiredLength ==
             Min2(ArrayLen(data, 1), Min2(ArrayLen(data, 2),
               Min2(ArrayLen(data, 3), Min2(ArrayLen(data, 4),
                 ArrayLen(data, 5)))))
           actualDetections == Min2(numDetections, minRequiredLength)
       IN  IF minRequiredLength = 0
           THEN [fn |-> "findValidDetections", list |-> <<>>, examined |-> 0]
           ELSE [fn |-> "findValidDetections",
                 list |-> sortDetections(
                   validDetections(data, 1, actualDetections, scoreThreshold)),
                 examined |-> actualDetections]

\* findValidDetections; examined: how many slots the loop looked at
findValidDetections(data, numDetections, scoreThreshold) ==
  IF \/ Len(data) < 5
     \/ ~IsFinite(numDetections)
     \/ numDetections < 0
     \/ ~IsFinite(scoreThreshold)
     \/ scoreThreshold < 0
     \/ scoreThreshold > ScoreOne
  THEN [fn |-> "findValidDetections", list |-> <<>>, examined |-> 0]
  ELSE LET minRequiredLength ==
             Min2(ArrayLen(data, 1), Min2(ArrayLen(data, 2),
               Min2(ArrayLen(data, 3), Min2(ArrayLen(data, 4),
                 ArrayLen(data, 5)))))
           actualDetections == Min2(numDetections, minRequiredLength)
       IN  IF minRequiredLength = 0
           THEN [fn |-> "findValidDetections", list |-> <<>>, examined |-> 0]
           ELSE [fn |-> "findValidDetections",
                 list |-> sortDetections(
                   validDetections(data, 1, actualDetections, scoreThreshold)),
                 examined |-> actualDetections]

\* the inputs of the decoder
BoxKinds ==
  {<<1, 1, 1, 1>>, <<1, 1, 0, 0>>, <<NaN, 1, 1, 1>>, <<1, PosInf, 1, 1>>,
   <<1, 1, 0 - 1, 1>>, <<1, 1, NaN, 1>>, <<1, 1, 1, 0 - 1>>,
   <<1, 1, 1, NegInf>>}

SlotKinds ==
  {[box |-> <<1, 1, 1, 1>>, score |-> sc, angle |-> an] :
     sc \in {1, 2, 3, NaN}, an \in {5, NaN}}
  \cup {[box |-> b, score |-> 3, angle |-> 5] : b \in BoxKinds}

ThresholdOptions == {0 - 1, 0, 1, 3}

NumDetectionsOptions == {0 - 1, 0, MaxSlots - 1, MaxSlots + 1, PosInf}

\* the arrays of the model output: arrays rows, row short cut to len entries
SlotField(slot, k) ==
  IF k <= 4 THEN slot.box[k] ELSE IF k = 5 THEN slot.score ELSE slot.angle

ModelOutput(slots, arrays, short, len) ==
  [k \in 1..arrays |->
     [i \in 1..(IF k = short THEN len ELSE MaxSlots) |->
        SlotField(slots[i], k)]]

DecoderInit ==
  /\ FixedController
  /\ PipelineIdle
  /\ result = NoResult
  /\ \E slots \in [1..MaxSlots -> SlotKinds],
        arrays \in 4..6, short \in 0..6, len \in {0, MaxSlots - 1},
        n \in NumDetectionsOptions, th \in ThresholdOptions :
       /\ arrays < 6 => short = 0
       /\ short = 0 => len = 0
       /\ args = [fn |-> "findValidDetections",
                  data |-> ModelOutput(slots, arrays, short, len),
                  numDetections |-> n, scoreThreshold |-> th]

CallFindValidDetections ==
  /\ args.fn = "findValidDetections"
  /\ result = NoResult
  /\ result' = findValidDetections(args.data, args.numDetections,
                                   args.scoreThreshold)
  /\ UNCHANGED <<controller, pipeline, args>>

DecoderNext ==
  CallFindValidDetections

DecoderSpec == DecoderInit /\ [][DecoderNext]_vars

\* ------------------------------------------------------------ the remapper
\* !v for a number or undefined
Falsy(v) ==
  v \in {0, NaN, Missing}

\* v <= 0, false for NaN and undefined
LeZero(v) ==
  IF v = NegInf THEN TRUE
  ELSE IF v \in {NaN, PosInf, Missing} THEN FALSE
  ELSE v <= 0

Thrown ==
  [ok |-> FALSE, rect |-> <<0, 0, 0, 0>>]

\* ok is FALSE when the conversion throws
convertRadiansToDegrees(radians) ==
  IF ~IsFinite(radians) THEN [ok |-> FALSE, degrees |-> 0]
  ELSE [ok |-> TRUE, degrees |-> radians * RADIANS_TO_DEGREES]

\* rect is <<x, y, width, height>>
letterboxToOriginal(x, y, width, height, scale, top, left) ==
  IF \/ ~IsFinite(x) \/ ~IsFinite(y) \/ ~IsFinite(width) \/ ~IsFinite(height)
     \/ ~IsFinite(scale) \/ LeZero(scale)
     \/ ~IsFinite(top) \/ ~IsFinite(left)
     \/ width < 0 \/ height < 0
  THEN Thrown
  ELSE [ok |-> TRUE,
        rect |-> <<(x - left) \div scale, (y - top) \div scale,
                   width \div scale, height \div scale>>]

originalToCanvas(rect, canvasElement, croppedSize) ==
  IF \/ \E k \in 1..4 : ~IsFinite(rect[k])
     \/ ~IsFinite(croppedSize.width) \/ ~IsFinite(croppedSize.height)
     \/ croppedSize.width <= 0 \/ croppedSize.height <= 0
     \/ canvasElement.width <= 0 \/ canvasElement.height <= 0
     \/ rect[3] < 0 \/ rect[4] < 0
  THEN Thrown
  ELSE LET scaleX == canvasElement.width \div croppedSize.width
           scaleY == canvasElement.height \div croppedSize.height
           scale == Min2(scaleX, scaleY)
       IN  [ok |-> TRUE,
            rect |-> <<rect[1] * scale, rect[2] * scale, rect[3] * scale,
                       rect[4] * scale>>]

\* the basic validation of one prediction
validPrediction(p) ==
  /\ ~(\/ \E k \in 1..4 : ~IsFinite(p.boundingBox[k])
        \/ ~IsFinite(p.score)
        \/ ~IsFinite(p.angle))
  /\ ~(p.boundingBox[3] < 0 \/ p.boundingBox[4] < 0)

\* the body of the loop for one prediction: <<>> when it is skipped; from is
\* kept to tell the detections apart
remapPrediction(p, from, info, canvasElement) ==
  IF ~validPrediction(p) THEN <<>>
  ELSE LET b == p.boundingBox
           originalRect == letterboxToOriginal(b[1], b[2], b[3], b[4],
                                               info.scale, info.top, info.left)
           canvasRect ==
             IF originalRect.ok
             THEN originalToCanvas(originalRect.rect, canvasElement,
                                   [width |-> info.croppedWidth,
                                    height |-> info.croppedHeight])
             ELSE Thrown
           degrees == convertRadiansToDegrees(p.angle)
       IN  IF canvasRect.ok /\ degrees.ok
           THEN <<[boundingBox |-> canvasRect.rect,
                   angle |-> degrees.degrees,
                   score |-> p.score, from |-> from]>>
           ELSE <<>>

RECURSIVE remapAll(_, _, _, _)
remapAll(predictions, i, info, canvasElement) ==
  IF i > Len(predictions) THEN <<>>
  ELSE remapPrediction(predictions[i], i, info, canvasElement)
       \o remapAll(predictions, i + 1, info, canvasElement)

\* variant of transformToCanvas that does not validate the letterbox record
transformToCanvas_noInfoCheck(predictions, letterboxInfo, canvasElement) ==
  IF Len(predictions) = 0
  THEN [fn |-> "transformToCanvas", threw |-> FALSE, list |-> <<>>]
  ELSE IF \/ ~canvasElement.present
          \/ canvasElement.width <= 0
          \/ canvasElement.height <= 0
  THEN [fn |-> "transformToCanvas", threw |-> TRUE, list |-> <<>>]
  ELSE [fn |-> "transformToCanvas", threw |-> FALSE,
        list |-> remapAll(predictions, 1, letterboxInfo, canvasElement)]

transformToCanvas(predictions, letterboxInfo, canvasElement) ==
  IF Len(predictions) = 0
  THEN [fn |-> "transformToCanvas", threw |-> FALSE, list |-> <<>>]
  ELSE IF \/ ~canvasElement.present
          \/ canvasElement.width <= 0
          \/ canvasElement.height <= 0
  THEN [fn |-> "transformToCanvas", threw |-> TRUE, list |-> <<>>]
  ELSE IF \/ ~IsFinite(letterboxInfo.scale)
          \/ LeZero(letterboxInfo.scale)
          \/ ~IsFinite(letterboxInfo.top)
          \/ ~IsFinite(letterboxInfo.left)
          \/ Falsy(letterboxInfo.croppedWidth)
          \/ Falsy(letterboxInfo.croppedHeight)
          \/ LeZero(letterboxInfo.croppedWidth)
          \/ LeZero(letterboxInfo.croppedHeight)
  THEN [fn |-> "transformToCanvas", threw |-> TRUE, list |-> <<>>]
  ELSE [fn |-> "transformToCanvas", threw |-> FALSE,
        list |-> remapAll(predictions, 1, letterboxInfo, canvasElement)]

\* the inputs of the remapper
PredictionKinds ==
  {[boundingBox |-> <<4, 4, 2, 2>>, score |-> sc, angle |-> an] :
     sc \in {1, NaN}, an \in {1, NaN}}
  \cup {[boundingBox |-> b, score |-> 1, angle |-> 1] :
          b \in {<<NaN, 4, 2, 2>>, <<4, PosInf, 2, 2>>, <<4, 4, 0 - 2, 2>>,
                  <<4, 4, 2, 0 - 2>>, <<4, 4, 0, 0>>}}

CanvasOptions ==
  {[present |-> FALSE, width |-> 0, height |-> 0],
   [present |-> TRUE, width |-> 0, height |-> 4],
   [present |-> TRUE, width |-> 4, height |-> 0],
   [present |-> TRUE, width |-> 8, height |-> 4]}

LetterboxOptions ==
  [scale : {2, 0, NaN}, top : {0, NaN}, left : {2, PosInf},
   croppedWidth : {Missing, 0, 0 - 2, NaN, PosInf, 2, 4},
   croppedHeight : {Missing, 4}]

RemapperInit ==
  /\ FixedController
  /\ PipelineIdle
  /\ result = NoResult
  /\ \E n \in 0..MaxPredictions :
       \E predictions \in [1..n -> PredictionKinds],
          info \in LetterboxOptions, canvasElement \in CanvasOptions :
         args = [fn |-> "transformToCanvas", predictions |-> predictions,
                 letterboxInfo |-> info, canvasElement |-> canvasElement]

CallTransformToCanvas ==
  /\ args.fn = "transformToCanvas"
  /\ result = NoResult
  /\ result' = transformToCanvas(args.predictions, args.letterboxInfo,
                                 args.canvasElement)
  /\ UNCHANGED <<controller, pipeline, args>>

RemapperNext ==
  CallTransformToCanvas

RemapperSpec == RemapperInit /\ [][RemapperNext]_vars

\* ------------------------------------------- from the output to the callback
\* YOLOInference.predict from the squeezed output on, and the dispatch of
\* handleDetectionResults.  The output is a tensor: every row has
\* numDetections = shape[1] entries.

\* the try block of processRawPredictions
processRawPredictions(data, scoreThreshold) ==
  LET numDetections == IF Len(data) >= 2 THEN Len(data[2]) ELSE 0
  IN  IF numDetections = 0 THEN <<>>
      ELSE findValidDetections(data, numDetections, scoreThreshold).list

\* variant of predict that hands the remapped detections back in reverse
\* order
predict_reversed(data, scoreThreshold, letterboxInfo, canvasElement) ==
  LET decoded == processRawPredictions(data, scoreThreshold)
      remapped == transformToCanvas(decoded, letterboxInfo, canvasElement)
      n == Len(remapped.list)
  IN  [fn |-> "predict", decoded |-> decoded, threw |-> remapped.threw,
       list |-> [i \in 1..n |-> remapped.list[n + 1 - i]],
       dispatched |-> "none"]

\* the try block of predict: processRawPredictions, then transformToCanvas;
\* decoded is kept to compare the two lists
predict(data, scoreThreshold, letterboxInfo, canvasElement) ==
  LET decoded == processRawPredictions(data, scoreThreshold)
      remapped == transformToCanvas(decoded, letterboxInfo, canvasElement)
  IN  [fn |-> "predict", decoded |-> decoded, threw |-> remapped.threw,
       list |-> remapped.list, dispatched |-> "none"]

\* the inputs: scores in units of 0.5, boxes that pass or fail the decoder
OutputSlots ==
  {[box |-> <<4, 4, 2, 2>>, score |-> sc, angle |-> an] :
     sc \in {1, 2, NaN}, an \in {1, NaN}}
  \cup {[box |-> b, score |-> 2, angle |-> 1] :
          b \in {<<4, 4, 0 - 2, 2>>, <<4, PosInf, 2, 2>>}}

OutputThresholds == {0, 1}

OutputLetterbox ==
  [scale : {2, NaN}, top : {0}, left : {2},
   croppedWidth : {PosInf, 4}, croppedHeight : {4}]

OutputCanvas ==
  {[present |-> FALSE, width |-> 0, height |-> 0],
   [present |-> TRUE, width |-> 8, height |-> 4]}

PredictInit ==
  /\ FixedController
  /\ PipelineIdle
  /\ result = NoResult
  /\ \E m \in 0..MaxSlots :
       \E slots \in [1..MaxSlots -> OutputSlots], arrays \in 5..6,
          th \in OutputThresholds, info \in OutputLetterbox,
          canvasElement \in OutputCanvas :
         args = [fn |-> "predict",
                 data |-> [k \in 1..arrays |->
                             [i \in 1..m |-> SlotField(slots[i], k)]],
                 scoreThreshold |-> th,
                 letterboxInfo |-> info, canvasElement |-> canvasElement]

\* predict from the squeezed output on
PredictDetections ==
  /\ args.fn = "predict"
  /\ result = NoResult
  /\ result' = predict(args.data, args.scoreThreshold, args.letterboxInfo,
                       args.canvasElement)
  /\ UNCHANGED <<controller, pipeline, args>>

\* handleDetectionResults on the list predict returned: onDetection with
\* element 0, or with null
Dispatch ==
  /\ result.fn = "predict"
  /\ ~result.threw
  /\ result' =
       [result EXCEPT !.fn = "dispatch",
                      !.dispatched =
                        handleDetectionResults(Len(result.list)).notify]
  /\ UNCHANGED <<controller, pipeline, args>>

PredictNext ==
  \/ PredictDetections
  \/ Dispatch

PredictSpec == PredictInit /\ [][PredictNext]_vars

\* ==================================================================== claims

\* -------------------------------------------------------- the crop region
\* a number is a fraction <<numerator, denominator>> with denominator > 0
Frac(n) ==
  <<n, 1>>

FracMul(a, b) ==
  <<a[1] * b[1], a[2] * b[2]>>

\* a / b for b > 0
FracDiv(a, b) ==
  <<a[1] * b[2], a[2] * b[1]>>

FracSub(a, b) ==
  <<a[1] * b[2] - b[1] * a[2], a[2] * b[2]>>

FracAdd(a, b) ==
  <<a[1] * b[2] + b[1] * a[2], a[2] * b[2]>>

FracLess(a, b) ==
  a[1] * b[2] < b[1] * a[2]

FracEq(a, b) ==
  a[1] * b[2] = b[1] * a[2]

FracLeq(a, b) ==
  FracLess(a, b) \/ FracEq(a, b)

\* variant of calculateCropRegion that leaves the cropped axis at offset 0
calculateCropRegion_uncentred(video, canvas) ==
  LET videoAspectRatio == FracDiv(Frac(video.videoWidth),
                                  Frac(video.videoHeight))
      canvasAspectRatio == FracDiv(Frac(canvas.width), Frac(canvas.height))
  IN  IF FracLess(canvasAspectRatio, videoAspectRatio)
      THEN [cropX |-> Frac(0), cropY |-> Frac(0),
            croppedWidth |-> FracMul(Frac(video.videoHeight),
                                     canvasAspectRatio),
            croppedHeight |-> Frac(video.videoHeight)]
      ELSE IF FracLess(videoAspectRatio, canvasAspectRatio)
      THEN [cropX |-> Frac(0), cropY |-> Frac(0),
            croppedWidth |-> Frac(video.videoWidth),
            croppedHeight |-> FracDiv(Frac(video.videoWidth),
                                      canvasAspectRatio)]
      ELSE [cropX |-> Frac(0), cropY |-> Frac(0),
            croppedWidth |-> Frac(video.videoWidth),
            croppedHeight |-> Frac(video.videoHeight)]

calculateCropRegion(video, canvas) ==
  LET videoAspectRatio == FracDiv(Frac(video.videoWidth),
                                  Frac(video.videoHeight))
      canvasAspectRatio == FracDiv(Frac(canvas.width), Frac(canvas.height))
  IN  IF FracLess(canvasAspectRatio, videoAspectRatio)
      THEN LET croppedWidth == FracMul(Frac(video.videoHeight),
                                       canvasAspectRatio)
           IN  [cropX |-> FracDiv(FracSub(Frac(video.videoWidth),
                                          croppedWidth), Frac(2)),
                cropY |-> Frac(0),
                croppedWidth |-> croppedWidth,
                croppedHeight |-> Frac(video.videoHeight)]
      ELSE IF FracLess(videoAspectRatio, canvasAspectRatio)
      THEN LET croppedHeight == FracDiv(Frac(video.videoWidth),
                                        canvasAspectRatio)
           IN  [cropX |-> Frac(0),
                cropY |-> FracDiv(FracSub(Frac(video.videoHeight),
                                          croppedHeight), Frac(2)),
                croppedWidth |-> Frac(video.videoWidth),
                croppedHeight |-> croppedHeight]
      ELSE [cropX |-> Frac(0), cropY |-> Frac(0),
            croppedWidth |-> Frac(video.videoWidth),
            croppedHeight |-> Frac(video.videoHeight)]

\* the inputs of calculateCropRegion: positive dimensions
Dimensions ==
  1..MaxDimension

CropInit ==
  /\ FixedController
  /\ PipelineIdle
  /\ result = NoResult
  /\ \E vw \in Dimensions, vh \in Dimensions,
        cw \in Dimensions, ch \in Dimensions :
       args = [fn |-> "calculateCropRegion",
               video |-> [videoWidth |-> vw, videoHeight |-> vh],
               canvas |-> [width |-> cw, height |-> ch]]

CallCalculateCropRegion ==
  /\ args.fn = "calculateCropRegion"
  /\ result = NoResult
  /\ result' = [fn |-> "calculateCropRegion",
                region |-> calculateCropRegion(args.video, args.canvas)]
  /\ UNCHANGED <<controller, pipeline, args>>

CropNext ==
  CallCalculateCropRegion

CropSpec == CropInit /\ [][CropNext]_vars

\* -------------------------------------------------- the crop region cache
\* an optional field is <<>> when undefined and <<v>> when it holds v
Undefined == <<>>

NoCache ==
  [cachedCropRegion |-> Undefined, lastVideoDimensions |-> Undefined,
   lastCanvasDimensions |-> Undefined]

\* variant of getCachedCropRegion that compares the video dimensions only
getCachedCropRegion_videoOnly(cache, video, canvas) ==
  LET currentVideoDimensions ==
        [width |-> video.videoWidth, height |-> video.videoHeight]
      currentCanvasDimensions ==
        [width |-> canvas.width, height |-> canvas.height]
  IN  IF /\ cache.cachedCropRegion # Undefined
         /\ cache.lastVideoDimensions # Undefined
         /\ cache.lastCanvasDimensions # Undefined
         /\ cache.lastVideoDimensions = <<currentVideoDimensions>>
      THEN [cache |-> cache, returned |-> cache.cachedCropRegion,
            recomputed |-> FALSE]
      ELSE LET region == calculateCropRegion(video, canvas)
           IN  [cache |-> [cachedCropRegion |-> <<region>>,
                           lastVideoDimensions |-> <<currentVideoDimensions>>,
                           lastCanvasDimensions |-> <<currentCanvasDimensions>>],
                returned |-> <<region>>, recomputed |-> TRUE]

getCachedCropRegion(cache, video, canvas) ==
  LET currentVideoDimensions ==
        [width |-> video.videoWidth, height |-> video.videoHeight]
      currentCanvasDimensions ==
        [width |-> canvas.width, height |-> canvas.height]
  IN  IF /\ cache.cachedCropRegion # Undefined
         /\ cache.lastVideoDimensions # Undefined
         /\ cache.lastCanvasDimensions # Undefined
         /\ cache.lastVideoDimensions[1].width = currentVideoDimensions.width
         /\ cache.lastVideoDimensions[1].height = currentVideoDimensions.height
         /\ cache.lastCanvasDimensions[1].width = currentCanvasDimensions.width
         /\ cache.lastCanvasDimensions[1].height = currentCanvasDimensions.height
      THEN [cache |-> cache, returned |-> cache.cachedCropRegion,
            recomputed |-> FALSE]
      ELSE LET region == calculateCropRegion(video, canvas)
           IN  [cache |-> [cachedCropRegion |-> <<region>>,
                           lastVideoDimensions |-> <<currentVideoDimensions>>,
                           lastCanvasDimensions |-> <<currentCanvasDimensions>>],
                returned |-> <<region>>, recomputed |-> TRUE]

\* the widths and heights a video or canvas takes
CacheSizes ==
  {MaxDimension \div 2, MaxDimension}

\* the controller is initialized (managers present, args.ready) with an
\* empty cache; result holds the cache fields and the latest call
CacheInit ==
  /\ FixedController
  /\ PipelineIdle
  /\ \E vw \in CacheSizes, vh \in CacheSizes,
        cw \in CacheSizes, ch \in CacheSizes :
       args = [fn |-> "getCachedCropRegion", ready |-> TRUE,
               video |-> [videoWidth |-> vw, videoHeight |-> vh],
               canvas |-> [width |-> cw, height |-> ch]]
  /\ result = [fn |-> "getCachedCropRegion", cache |-> NoCache,
               before |-> NoCache, called |-> FALSE, threw |-> FALSE,
               returned |-> Undefined, recomputed |-> FALSE]

\* detectObjects reads the crop region at the start of an attempt; the video
\* and canvas getters throw when the managers are gone
CallGetCachedCropRegion ==
  /\ args.fn = "getCachedCropRegion"
  /\ IF ~args.ready
     THEN result' = [result EXCEPT !.before = result.cache, !.called = TRUE,
                                   !.threw = TRUE, !.returned = Undefined,
                                   !.recomputed = FALSE]
     ELSE LET r == getCachedCropRegion(result.cache, args.video, args.canvas)
          IN  result' = [fn |-> "getCachedCropRegion", cache |-> r.cache,
                         before |-> result.cache, called |-> TRUE,
                         threw |-> FALSE, returned |-> r.returned,
                         recomputed |-> r.recomputed]
  /\ UNCHANGED <<controller, pipeline, args>>

\* the camera delivers frames of another size
ResizeVideo ==
  /\ args.fn = "getCachedCropRegion"
  /\ args.ready
  /\ \E vw \in CacheSizes, vh \in CacheSizes :
       /\ <<vw, vh>> # <<args.video.videoWidth, args.video.videoHeight>>
       /\ args' = [args EXCEPT !.video =
                                 [videoWidth |-> vw, videoHeight |-> vh]]
  /\ result' = [result EXCEPT !.called = FALSE, !.threw = FALSE,
                               !.returned = Undefined, !.recomputed = FALSE]
  /\ UNCHANGED <<controller, pipeline>>

\* the page resizes the canvas
ResizeCanvas ==
  /\ args.fn = "getCachedCropRegion"
  /\ args.ready
  /\ \E cw \in CacheSizes, ch \in CacheSizes :
       /\ <<cw, ch>> # <<args.canvas.width, args.canvas.height>>
       /\ args' = [args EXCEPT !.canvas = [width |-> cw, height |-> ch]]
  /\ result' = [result EXCEPT !.called = FALSE, !.threw = FALSE,
                               !.returned = Undefined, !.recomputed = FALSE]
  /\ UNCHANGED <<controller, pipeline>>

\* dispose() drops the managers and clears the three cache fields
CacheDispose ==
  /\ args.fn = "getCachedCropRegion"
  /\ args.ready
  /\ args' = [args EXCEPT !.ready = FALSE]
  /\ result' = [result EXCEPT !.cache = NoCache, !.called = FALSE,
                               !.threw = FALSE, !.returned = Undefined,
                               !.recomputed = FALSE]
  /\ UNCHANGED <<controller, pipeline>>

\* initialize() on a disposed controller sets the managers up again
CacheInitialize ==
  /\ args.fn = "getCachedCropRegion"
  /\ ~args.ready
  /\ \E vw \in CacheSizes, vh \in CacheSizes,
        cw \in CacheSizes, ch \in CacheSizes :
       args' = [fn |-> "getCachedCropRegion", ready |-> TRUE,
                video |-> [videoWidth |-> vw, videoHeight |-> vh],
                canvas |-> [width |-> cw, height |-> ch]]
  /\ result' = [result EXCEPT !.called = FALSE, !.threw = FALSE,
                               !.returned = Undefined, !.recomputed = FALSE]
  /\ UNCHANGED <<controller, pipeline>>

CacheNext ==
  \/ CallGetCachedCropRegion
  \/ ResizeVideo
  \/ ResizeCanvas
  \/ CacheDispose
  \/ CacheInitialize

CacheSpec == CacheInit /\ [][CacheNext]_vars

\* ---------------------------------------------------- the letterbox sizes
\* Math.min of two fractions
FracMin(a, b) ==
  IF FracLess(b, a) THEN b ELSE a

\* Math.round of a fraction that is not negative: floor(x + 1/2)
FracRound(a) ==
  (2 * a[1] + a[2]) \div (2 * a[2])

\* what calculateOptimalScale and calculatePadding yield when they throw
ScaleThrown ==
  [threw |-> TRUE, scaleRatio |-> Frac(0), scaledWidth |-> 0,
   scaledHeight |-> 0]

PaddingThrown ==
  [threw |-> TRUE, top |-> 0, left |-> 0,
   paddingList |-> <<<<0, 0>>, <<0, 0>>, <<0, 0>>>>]

\* variant of calculateOptimalScale that fills the target on both axes
calculateOptimalScale_cover(originalWidth, originalHeight, targetWidth, targetHeight) ==
  IF originalWidth <= 0 \/ originalHeight <= 0 THEN ScaleThrown
  ELSE LET a == FracDiv(Frac(targetWidth), Frac(originalWidth))
           b == FracDiv(Frac(targetHeight), Frac(originalHeight))
           scaleRatio == IF FracLess(b, a) THEN a ELSE b
       IN  [threw |-> FALSE, scaleRatio |-> scaleRatio,
            scaledWidth |-> FracRound(FracMul(Frac(originalWidth),
                                              scaleRatio)),
            scaledHeight |-> FracRound(FracMul(Frac(originalHeight),
                                               scaleRatio))]

calculateOptimalScale(originalWidth, originalHeight, targetWidth, targetHeight) ==
  IF originalWidth <= 0 \/ originalHeight <= 0 THEN ScaleThrown
  ELSE LET scaleRatio ==
             FracMin(FracDiv(Frac(targetWidth), Frac(originalWidth)),
                     FracDiv(Frac(targetHeight), Frac(originalHeight)))
       IN  [threw |-> FALSE, scaleRatio |-> scaleRatio,
            scaledWidth |-> FracRound(FracMul(Frac(originalWidth),
                                              scaleRatio)),
            scaledHeight |-> FracRound(FracMul(Frac(originalHeight),
                                               scaleRatio))]

calculatePadding(scaledWidth, scaledHeight, letterboxWidth, letterboxHeight) ==
  IF scaledWidth > letterboxWidth \/ scaledHeight > letterboxHeight
  THEN PaddingThrown
  ELSE LET paddingWidth == letterboxWidth - scaledWidth
           paddingHeight == letterboxHeight - scaledHeight
           top == paddingHeight \div 2
           bottom == paddingHeight - top
           left == paddingWidth \div 2
           right == paddingWidth - left
       IN  [threw |-> FALSE, top |-> top, left |-> left,
            paddingList |-> <<<<top, bottom>>, <<left, right>>, <<0, 0>>>>]

\* the sizes letterboxTransform derives from the shape of the image and the
\* letterbox shape <<height, width>>; the tensors are left out
letterboxTransform(originalWidth, originalHeight, letterboxShape) ==
  LET letterboxHeight == letterboxShape[1]
      letterboxWidth == letterboxShape[2]
      scale == calculateOptimalScale(originalWidth, originalHeight,
                                     letterboxWidth, letterboxHeight)
      padding == calculatePadding(scale.scaledWidth, scale.scaledHeight,
                                  letterboxWidth, letterboxHeight)
  IN  IF letterboxWidth <= 0 \/ letterboxHeight <= 0
      THEN [fn |-> "letterboxTransform", threw |-> "targetSize",
            scale |-> ScaleThrown, padding |-> PaddingThrown]
      ELSE IF scale.threw
      THEN [fn |-> "letterboxTransform", threw |-> "scale",
            scale |-> ScaleThrown, padding |-> PaddingThrown]
      ELSE IF padding.threw
      THEN [fn |-> "letterboxTransform", threw |-> "padding",
            scale |-> scale, padding |-> PaddingThrown]
      ELSE [fn |-> "letterboxTransform", threw |-> "none",
            scale |-> scale, padding |-> padding]

\* image sizes (0: an empty image) and letterbox sizes
SourceSizes ==
  0..MaxDimension

TargetSizes ==
  0..MaxDimension

LetterboxInit ==
  /\ FixedController
  /\ PipelineIdle
  /\ result = NoResult
  /\ \E ow \in SourceSizes, oh \in SourceSizes,
        lw \in TargetSizes, lh \in TargetSizes :
       args = [fn |-> "letterboxTransform", originalWidth |-> ow,
               originalHeight |-> oh, letterboxShape |-> <<lh, lw>>]

CallLetterboxTransform ==
  /\ args.fn = "letterboxTransform"
  /\ result = NoResult
  /\ result' = letterboxTransform(args.originalWidth, args.originalHeight,
                                  args.letterboxShape)
  /\ UNCHANGED <<controller, pipeline, args>>

LetterboxNext ==
  CallLetterboxTransform

LetterboxSpec == LetterboxInit /\ [][LetterboxNext]_vars

\* ------------------------------------------------- the class-size registry
\* a class name is a sequence of characters
Chars ==
  {"a", "A", " "}

\* String.prototype.toLowerCase, character by character
toLowerCaseChar(ch) ==
  IF ch = "A" THEN "a" ELSE ch

toLowerCase(str) ==
  [i \in DOMAIN str |-> toLowerCaseChar(str[i])]

\* String.prototype.trim: strips the white space at both ends
RECURSIVE trimStart(_)
trimStart(str) ==
  IF Len(str) > 0 /\ str[1] = " " THEN trimStart(Tail(str)) ELSE str

RECURSIVE trimEnd(_)
trimEnd(str) ==
  IF Len(str) > 0 /\ str[Len(str)] = " "
  THEN trimEnd(SubSeq(str, 1, Len(str) - 1))
  ELSE str

trim(str) ==
  trimEnd(trimStart(str))

\* the two modules that own a registry
DepthEstimator == "depth-estimator"
ThreeDEstimator == "3d-estimator"

\* REGISTERED_OBJECT_SIZES = {}: a function from keys to sizes
EmptyRegistry ==
  <<>>

\* Object.keys(REGISTERED_OBJECT_SIZES)
getRegisteredClasses(registry) ==
  DOMAIN registry

\* REGISTERED_OBJECT_SIZES[key] = entry
Store(registry, key, entry) ==
  [k \in DOMAIN registry \cup {key} |->
     IF k = key THEN entry ELSE registry[k]]

\* width / height of a real size
aspectRatioOf(width, height) ==
  IF IsFinite(width) /\ IsFinite(height) THEN <<width, height>>
  ELSE <<0, 0>>

\* depth-estimator.ts
registerObjectSize(registry, className, realSize) ==
  IF Len(className) = 0 \/ Len(trim(className)) = 0
  THEN [threw |-> "INVALID_CLASS_NAME", registry |-> registry]
  ELSE IF LeZero(realSize.width) \/ LeZero(realSize.height)
  THEN [threw |-> "INVALID_REAL_SIZE", registry |-> registry]
  ELSE [threw |-> "none",
        registry |->
          Store(registry, toLowerCase(className),
                [width |-> realSize.width, height |-> realSize.height,
                 aspectRatio |-> aspectRatioOf(realSize.width,
                                               realSize.height)])]

\* depth-estimator.ts: setObjectSize delegates; part_007 has its own copy
setObjectSize(module, registry, className, width, height) ==
  IF module = DepthEstimator
  THEN registerObjectSize(registry, className,
                          [width |-> width, height |-> height])
  ELSE IF Len(className) = 0 \/ Len(trim(className)) = 0
  THEN [threw |-> "INVALID_CLASS_NAME", registry |-> registry]
  ELSE IF LeZero(width) \/ LeZero(height)
  THEN [threw |-> "INVALID_REAL_SIZE", registry |-> registry]
  ELSE [threw |-> "none",
        registry |->
          Store(registry, toLowerCase(className),
                [width |-> width, height |-> height,
                 aspectRatio |-> aspectRatioOf(width, height)])]

\* the entry an estimation resolves for className: <<key>> or <<>>.
\* depth-estimator.ts indexes the table with className as given,
\* part_007 with className.toLowerCase()
lookupObjectSize(module, registry, className) ==
  LET key == IF module = DepthEstimator THEN className
             ELSE toLowerCase(className)
  IN  IF Len(className) > 0 /\ key \in DOMAIN registry
      THEN <<key>> ELSE <<>>

ClassNames ==
  UNION {[1..n -> Chars] : n \in 0..MaxNameLen}

RealSizes ==
  {0 - 1, 0, 1, 2, NaN}

RealHeights ==
  {0, 1, NaN}

NoRegistryCall ==
  [op |-> "none", className |-> <<>>, width |-> 0, height |-> 0,
   threw |-> "none", before |-> EmptyRegistry, used |-> <<>>]

RegistryInit ==
  /\ FixedController
  /\ PipelineIdle
  /\ \E module \in {DepthEstimator, ThreeDEstimator} :
       args = [fn |-> "registry", module |-> module, calls |-> 0]
  /\ result = [fn |-> "registry", registry |-> EmptyRegistry,
               last |-> NoRegistryCall]

RegisterObjectSize ==
  /\ args.fn = "registry"
  /\ args.module = DepthEstimator
  /\ args.calls < MaxRegistryCalls
  /\ \E className \in ClassNames, width \in RealSizes, height \in RealHeights :
       LET r == registerObjectSize(result.registry, className,
                                   [width |-> width, height |-> height])
       IN  result' = [fn |-> "registry", registry |-> r.registry,
                      last |-> [op |-> "registerObjectSize",
                                className |-> className, width |-> width,
                                height |-> height, threw |-> r.threw,
                                before |-> result.registry, used |-> <<>>]]
  /\ args' = [args EXCEPT !.calls = args.calls + 1]
  /\ UNCHANGED <<controller, pipeline>>

SetObjectSize ==
  /\ args.fn = "registry"
  /\ args.calls < MaxRegistryCalls
  /\ \E className \in ClassNames, width \in RealSizes, height \in RealHeights :
       LET r == setObjectSize(args.module, result.registry, className,
                              width, height)
       IN  result' = [fn |-> "registry", registry |-> r.registry,
                      last |-> [op |-> "setObjectSize",
                                className |-> className, width |-> width,
                                height |-> height, threw |-> r.threw,
                                before |-> result.registry, used |-> <<>>]]
  /\ args' = [args EXCEPT !.calls = args.calls + 1]
  /\ UNCHANGED <<controller, pipeline>>

\* estimateDepthFromSize, estimateOrientation (depth-estimator.ts) and
\* estimate3DInfo (part_007) on a valid box: which entry they resolve;
\* part_007 throws when there is none
EstimateWithClassName ==
  /\ args.fn = "registry"
  /\ args.calls < MaxRegistryCalls
  /\ \E className \in ClassNames :
       LET used == lookupObjectSize(args.module, result.registry, className)
       IN  result' = [result EXCEPT !.last =
                        [op |-> "estimate", className |-> className,
                         width |-> 0, height |-> 0,
                         threw |-> IF args.module = ThreeDEstimator
                                      /\ used = <<>>
                                   THEN "OBJECT_SIZE_NOT_REGISTERED"
                                   ELSE "none",
                         before |-> result.registry, used |-> used]]
  /\ args' = [args EXCEPT !.calls = args.calls + 1]
  /\ UNCHANGED <<controller, pipeline>>

RegistryNext ==
  \/ RegisterObjectSize
  \/ SetObjectSize
  \/ EstimateWithClassName

RegistrySpec == RegistryInit /\ [][RegistryNext]_vars

\* ------------------------------------------------ floating-point numbers
\* A number is <<n, d>> with d >= 0: n/d when d > 0, Infinity <<1, 0>>,
\* -Infinity <<-1, 0>> and NaN <<0, 0>>.  Finite numbers are kept in lowest
\* terms.
RECURSIVE GCD(_, _)
GCD(a, b) ==
  IF b = 0 THEN a ELSE GCD(b, a % b)

XAbsInt(n) ==
  IF n < 0 THEN 0 - n ELSE n

XSign(n) ==
  IF n > 0 THEN 1 ELSE IF n < 0 THEN 0 - 1 ELSE 0

XNorm(n, d) ==
  IF d = 0 THEN <<XSign(n), 0>>
  ELSE LET g == GCD(XAbsInt(n), d)
       IN  <<n \div g, d \div g>>

XNum(n) ==
  <<n, 1>>

XInfinity == <<1, 0>>
XNaN == <<0, 0>>

XIsNaN(a) ==
  a[1] = 0 /\ a[2] = 0

\* Number.isFinite
XIsFinite(a) ==
  a[2] > 0

XMul(a, b) ==
  XNorm(a[1] * b[1], a[2] * b[2])

\* 1 / a
XRecip(a) ==
  IF a[1] > 0 THEN <<a[2], a[1]>>
  ELSE IF a[1] < 0 THEN <<0 - a[2], 0 - a[1]>>
  ELSE IF a[2] > 0 THEN XInfinity
  ELSE XNaN

XDiv(a, b) ==
  XMul(a, XRecip(b))

XAdd(a, b) ==
  IF a[2] = 0 /\ b[2] = 0 THEN (IF a[1] = b[1] THEN a ELSE XNaN)
  ELSE IF a[2] = 0 THEN a
  ELSE IF b[2] = 0 THEN b
  ELSE LET g == GCD(a[2], b[2])
       IN  XNorm(a[1] * (b[2] \div g) + b[1] * (a[2] \div g),
                 a[2] * (b[2] \div g))

XSub(a, b) ==
  XAdd(a, <<0 - b[1], b[2]>>)

\* a < b and a <= b: false when either is NaN
XLess(a, b) ==
  IF XIsNaN(a) \/ XIsNaN(b) THEN FALSE
  ELSE IF a[2] = 0 /\ b[2] = 0 THEN a[1] < b[1]
  ELSE a[1] * b[2] < b[1] * a[2]

XLeq(a, b) ==
  IF XIsNaN(a) \/ XIsNaN(b) THEN FALSE
  ELSE ~XLess(b, a)

\* Math.min, Math.max, Math.abs
XMin(a, b) ==
  IF XIsNaN(a) \/ XIsNaN(b) THEN XNaN
  ELSE IF XLess(b, a) THEN b ELSE a

XMax(a, b) ==
  IF XIsNaN(a) \/ XIsNaN(b) THEN XNaN
  ELSE IF XLess(a, b) THEN b ELSE a

XAbs(a) ==
  <<XAbsInt(a[1]), a[2]>>

\* the integer square root
RECURSIVE ISqrt(_)
ISqrt(x) ==
  IF x < 2 THEN x
  ELSE LET s == 2 * ISqrt(x \div 4)
       IN  IF (s + 1) * (s + 1) <= x THEN s + 1 ELSE s

\* Math.sqrt, rounded down to a multiple of 1/SqrtScale
XSqrt(a) ==
  IF XIsNaN(a) \/ a[1] < 0 THEN XNaN
  ELSE IF a[2] = 0 THEN XInfinity
  ELSE XNorm(ISqrt((a[1] * SqrtScale * SqrtScale) \div a[2]), SqrtScale)

\* ------------------------------------------------ the depth estimators
\* Three estimators: depth-estimator.ts (DepthEstimator), part_007
\* (ThreeDEstimator) and 3d-helper.ts (ThreeDHelper).  The first two read
\* the real size of the class from their registry: realSize is the entry
\* the lookup resolved, <<size>>, or <<>>.  The third is handed the size.
ThreeDHelper == "3d-helper"

CONSISTENCY_EPS == <<1, 4>>
DIVISION_SAFETY_EPSILON == <<1, 1000000>>

getFocalScale ==
  <<4, 5>>

\* what an estimation yields when it throws
EstimateThrown ==
  [threw |-> TRUE, depth |-> XNaN, path |-> "none"]

\* variant of estimateRelativeDepth without the ceiling
estimateRelativeDepth_noCeiling(boundingBox, focalLength, imageWidth, imageHeight) ==
  LET x == boundingBox[1]
      y == boundingBox[2]
      width == boundingBox[3]
      height == boundingBox[4]
      boxArea == XMul(width, height)
      imageArea == XMul(imageWidth, imageHeight)
      areaRatio == XDiv(boxArea, imageArea)
      baseDepth == XMul(XSqrt(XDiv(XNum(1), areaRatio)),
                        XDiv(focalLength, XNum(100)))
      centerX == XAdd(x, XDiv(width, XNum(2)))
      centerY == XAdd(y, XDiv(height, XNum(2)))
      normalizedX == XDiv(centerX, imageWidth)
      normalizedY == XDiv(centerY, imageHeight)
      dx == XSub(normalizedX, <<1, 2>>)
      dy == XSub(normalizedY, <<1, 2>>)
      distanceFromCenter == XSqrt(XAdd(XMul(dx, dx), XMul(dy, dy)))
      positionFactor == XAdd(XNum(1), XMul(distanceFromCenter, <<1, 2>>))
      estimatedDepth == XMul(baseDepth, positionFactor)
  IN  XMax(<<1, 2>>, estimatedDepth)

\* depth-estimator.ts
estimateRelativeDepth(boundingBox, focalLength, imageWidth, imageHeight) ==
  LET x == boundingBox[1]
      y == boundingBox[2]
      width == boundingBox[3]
      height == boundingBox[4]
      boxArea == XMul(width, height)
      imageArea == XMul(imageWidth, imageHeight)
      areaRatio == XDiv(boxArea, imageArea)
      baseDepth == XMul(XSqrt(XDiv(XNum(1), areaRatio)),
                        XDiv(focalLength, XNum(100)))
      centerX == XAdd(x, XDiv(width, XNum(2)))
      centerY == XAdd(y, XDiv(height, XNum(2)))
      normalizedX == XDiv(centerX, imageWidth)
      normalizedY == XDiv(centerY, imageHeight)
      dx == XSub(normalizedX, <<1, 2>>)
      dy == XSub(normalizedY, <<1, 2>>)
      distanceFromCenter == XSqrt(XAdd(XMul(dx, dx), XMul(dy, dy)))
      positionFactor == XAdd(XNum(1), XMul(distanceFromCenter, <<1, 2>>))
      estimatedDepth == XMul(baseDepth, positionFactor)
  IN  XMax(<<1, 2>>, XMin(XNum(50), estimatedDepth))

estimateDepthFromSize(boundingBox, realSize, options) ==
  LET width == boundingBox[3]
      height == boundingBox[4]
  IN  IF XLeq(width, XNum(0)) \/ XLeq(height, XNum(0)) THEN EstimateThrown
      ELSE IF XLeq(options.focalLength, XNum(0)) THEN EstimateThrown
      ELSE IF realSize # <<>>
      THEN LET depthFromWidth ==
                 XDiv(XMul(realSize[1].width, options.focalLength), width)
               depthFromHeight ==
                 XDiv(XMul(realSize[1].height, options.focalLength), height)
               estimatedDepth == XMin(depthFromWidth, depthFromHeight)
           IN  [threw |-> FALSE, path |-> "known",
                depth |-> XMax(<<1, 10>>, XMin(XNum(100), estimatedDepth))]
      ELSE [threw |-> FALSE, path |-> "relative",
            depth |-> estimateRelativeDepth(boundingBox, options.focalLength,
                                            options.imageWidth,
                                            options.imageHeight)]

adjustDepthByPosition(boundingBox, baseDepth, options) ==
  IF XLeq(options.imageWidth, XNum(0)) \/ XLeq(options.imageHeight, XNum(0))
  THEN EstimateThrown
  ELSE IF XLeq(baseDepth, XNum(0)) THEN EstimateThrown
  ELSE LET bottomY == XAdd(boundingBox[2], boundingBox[4])
           normalizedBottomY == XDiv(bottomY, options.imageHeight)
           positionFactor == XSub(XNum(1), XMul(normalizedBottomY, <<2, 5>>))
           adjustmentFactor == XAdd(<<3, 5>>, XMul(positionFactor, <<4, 5>>))
       IN  [threw |-> FALSE, path |-> "adjusted",
            depth |-> XMul(baseDepth, adjustmentFactor)]

\* the body of the map callback of addDepthToDetections, without previous
\* detections (no motion estimate) and without orientation
addDepthToDetection(detection, realSize, options) ==
  LET base == estimateDepthFromSize(detection.boundingBox, realSize, options)
      final == IF base.threw THEN EstimateThrown
               ELSE adjustDepthByPosition(detection.boundingBox, base.depth,
                                          options)
  IN  IF final.threw THEN detection
      ELSE [detection EXCEPT !.depth = <<final.depth>>]

addDepthToDetections(detections, realSize, options) ==
  [i \in DOMAIN detections |->
     addDepthToDetection(detections[i], realSize, options)]

\* part_007: estimate3DInfo
registryEstimate3DInfo(boundingBox, realSize, options) ==
  LET width == boundingBox[3]
      height == boundingBox[4]
  IN  IF XLeq(width, XNum(0)) \/ XLeq(height, XNum(0)) THEN EstimateThrown
      ELSE IF XLeq(options.focalLength, XNum(0)) THEN EstimateThrown
      ELSE IF realSize = <<>> THEN EstimateThrown
      ELSE LET depthFromWidth ==
                 XDiv(XMul(realSize[1].width, options.focalLength), width)
               depthFromHeight ==
                 XDiv(XMul(realSize[1].height, options.focalLength), height)
           IN  [threw |-> FALSE, path |-> "known",
                depth |-> XMax(<<1, 100>>,
                               XMin(XNum(10),
                                    XMin(depthFromWidth, depthFromHeight)))]

\* part_007: add3DToDetection and add3DToDetections
registryAdd3DToDetection(detection, realSize, options) ==
  LET threeDInfo == registryEstimate3DInfo(detection.boundingBox, realSize,
                                           options)
  IN  IF threeDInfo.threw THEN detection
      ELSE [detection EXCEPT !.depth = <<threeDInfo.depth>>]

add3DToDetections(detections, realSize, options) ==
  [i \in DOMAIN detections |->
     registryAdd3DToDetection(detections[i], realSize, options)]

\* variant of estimate3DInfo that always averages the two depths
estimate3DInfo_alwaysAverage(boundingBox, imageWidth, objectSize) ==
  LET width == boundingBox[3]
      height == boundingBox[4]
      focalLength == XMul(getFocalScale, imageWidth)
      depthFromWidth == XDiv(XMul(objectSize.width, focalLength), width)
      depthFromHeight == XDiv(XMul(objectSize.height, focalLength), height)
  IN  IF ~XIsFinite(width) \/ ~XIsFinite(height) THEN EstimateThrown
      ELSE IF XLeq(focalLength, XNum(0)) THEN EstimateThrown
      ELSE [threw |-> FALSE, path |-> "known",
            depth |-> XMul(<<1, 2>>, XAdd(depthFromWidth, depthFromHeight))]

\* 3d-helper.ts: estimate3DInfo, the depth; the orientation is left out
estimate3DInfo(boundingBox, imageWidth, objectSize) ==
  LET width == boundingBox[3]
      height == boundingBox[4]
      focalLength == XMul(getFocalScale, imageWidth)
      depthFromWidth == XDiv(XMul(objectSize.width, focalLength), width)
      depthFromHeight == XDiv(XMul(objectSize.height, focalLength), height)
      relDiff == XDiv(XAbs(XSub(depthFromWidth, depthFromHeight)),
                      XMax(XMax(depthFromWidth, depthFromHeight),
                           DIVISION_SAFETY_EPSILON))
  IN  IF ~XIsFinite(width) \/ ~XIsFinite(height) THEN EstimateThrown
      ELSE IF XLeq(focalLength, XNum(0)) THEN EstimateThrown
      ELSE [threw |-> FALSE, path |-> "known",
            depth |-> IF XLeq(relDiff, CONSISTENCY_EPS)
                      THEN XMul(<<1, 2>>,
                                XAdd(depthFromWidth, depthFromHeight))
                      ELSE IF XLess(width, height) THEN depthFromHeight
                      ELSE depthFromWidth]

\* 3d-helper.ts: add3DToDetection; threw is TRUE when estimate3DInfo throws
add3DToDetection(detection, imageWidth, objectSize) ==
  LET info == estimate3DInfo(detection.boundingBox, imageWidth, objectSize)
  IN  IF info.threw THEN [threw |-> TRUE, detection |-> detection]
      ELSE [threw |-> FALSE,
            detection |-> [detection EXCEPT !.depth = <<info.depth>>]]

\* the inputs of the estimators
BoxWidths ==
  {XNum(0), XNum(1), XNum(4), XInfinity}

BoxHeights ==
  {XNum(0), XNum(1), XNum(2)}

EstimatorDetections ==
  {[boundingBox |-> <<XNum(0), XNum(0), w, h>>, depth |-> <<>>] :
     w \in BoxWidths, h \in BoxHeights}

\* the real size of the class: not registered, or width and height in metres
KnownSizes ==
  {<<>>,
   <<[width |-> XNum(1), height |-> XNum(1)]>>,
   <<[width |-> XNum(3), height |-> XNum(4)]>>,
   <<[width |-> <<1, 100>>, height |-> <<1, 100>>]>>}

\* focal length and image size, in pixels
CameraOptions ==
  {[focalLength |-> XNum(f), imageWidth |-> XNum(iw),
    imageHeight |-> XNum(ih)] :
     <<f, iw, ih>> \in {<<0, 5, 5>>, <<4, 0, 5>>, <<4, 5, 5>>,
                        <<100, 25, 25>>, <<100, 125, 125>>,
                        <<1000, 25, 25>>}}

EstimatorInit ==
  /\ FixedController
  /\ PipelineIdle
  /\ result = NoResult
  /\ \E module \in {DepthEstimator, ThreeDEstimator, ThreeDHelper},
        n \in 0..MaxBoxes, realSize \in KnownSizes,
        options \in CameraOptions :
       \E detections \in [1..n -> EstimatorDetections] :
         /\ module = ThreeDHelper => realSize # <<>>
         /\ args = [fn |-> "estimator", module |-> module,
                    detections |-> detections, realSize |-> realSize,
                    options |-> options]

\* estimateDepthFromSize or estimate3DInfo on the first detection
CallEstimate ==
  /\ args.fn = "estimator"
  /\ result = NoResult
  /\ Len(args.detections) > 0
  /\ LET box == args.detections[1].boundingBox
         r == IF args.module = DepthEstimator
              THEN estimateDepthFromSize(box, args.realSize, args.options)
              ELSE IF args.module = ThreeDEstimator
              THEN registryEstimate3DInfo(box, args.realSize, args.options)
              ELSE estimate3DInfo(box, args.options.imageWidth,
                                  args.realSize[1])
     IN  result' = [fn |-> "estimate", threw |-> r.threw, depth |-> r.depth,
                    path |-> r.path]
  /\ UNCHANGED <<controller, pipeline, args>>

\* addDepthToDetections or add3DToDetections on the list
CallAddToDetections ==
  /\ args.fn = "estimator"
  /\ result = NoResult
  /\ args.module # ThreeDHelper
  /\ result' = [fn |-> "addToDetections", threw |-> FALSE,
                given |-> args.detections,
                list |-> IF args.module = DepthEstimator
                         THEN addDepthToDetections(args.detections,
                                                   args.realSize, args.options)
                         ELSE add3DToDetections(args.detections,
                                                args.realSize, args.options)]
  /\ UNCHANGED <<controller, pipeline, args>>

\* add3DToDetection on the first detection (3d-helper.ts and part_007)
CallAdd3DToDetection ==
  /\ args.fn = "estimator"
  /\ result = NoResult
  /\ args.module # DepthEstimator
  /\ Len(args.detections) > 0
  /\ LET given == <<args.detections[1]>>
         r == IF args.module = ThreeDEstimator
              THEN [threw |-> FALSE,
                    detection |-> registryAdd3DToDetection(
                                    args.detections[1], args.realSize,
                                    args.options)]
              ELSE add3DToDetection(args.detections[1],
                                    args.options.imageWidth, args.realSize[1])
     IN  result' = [fn |-> "addToDetections", threw |-> r.threw,
                    given |-> given,
                    list |-> IF r.threw THEN <<>> ELSE <<r.detection>>]
  /\ UNCHANGED <<controller, pipeline, args>>

EstimatorNext ==
  \/ CallEstimate
  \/ CallAddToDetections
  \/ CallAdd3DToDetection

EstimatorSpec == EstimatorInit /\ [][EstimatorNext]_vars

\* C1: at most one detection attempt is in flight at any time, and an attempt
\* starts only when no other attempt is in flight (the previous one has
\* unwound).
C1_AtMostOneAttempt ==
  /\ Len(inflight) <= 1
  /\ justStarted.valid => Len(inflight) = 1

\* an attempt is in flight while the resume timer has already put the state
\* back to IDLE: only the missing frame callback keeps a second one out
C1_Witness ==
  /\ Len(inflight) = 1
  /\ inflight[1].pc = "inference"
  /\ detectionState = IDLE

\* C2: when an attempt unwinds the state is not PROCESSING: IDLE if no pause
\* or dispose transition happened during the attempt, and whatever state
\* another transition set is kept otherwise; PROCESSING never occurs without
\* an attempt in flight.
C2_UnwindLeavesProcessing ==
  /\ detectionState = PROCESSING => Len(inflight) >= 1
  /\ justUnwound.valid =>
       /\ detectionState # PROCESSING
       /\ ~justUnwound.pausedDuring => detectionState = IDLE
       /\ justUnwound.beforeFinally # PROCESSING =>
            detectionState = justUnwound.beforeFinally

\* an attempt that threw and was paused meanwhile has unwound into the
\* paused state
C2_Witness ==
  /\ justUnwound.valid
  /\ justUnwound.error = "unexpected"
  /\ justUnwound.pausedDuring
  /\ detectionState = DETECTION_PAUSED

\* C3: an attempt starts only if the state is IDLE and the time since
\* lastDetectionTimestamp is at least the interval; two consecutive starts
\* with no timer reset in between are at least the interval apart.
C3_GateAndSpacing ==
  justStarted.valid =>
    /\ justStarted.gateState = IDLE
    /\ justStarted.elapsed >= detectionIntervalMs
    /\ justStarted.sincePrev # NoTime =>
         justStarted.sincePrev >= detectionIntervalMs

\* a second attempt has started with no timer reset since the first
C3_Witness ==
  /\ justStarted.valid
  /\ justStarted.sincePrev # NoTime
  /\ justStarted.sincePrev >= detectionIntervalMs

\* C4: in the pause-on-detection controller an attempt with at least one
\* detection calls onDetection once with the first detection and has paused
\* (state PAUSED, video.pause() called) when it has unwound; an attempt with
\* no detection calls neither onDetection nor pause from its result handler.
C4_PauseOnDetection ==
  (variant = Legacy /\ justUnwound.valid) =>
    /\ justUnwound.n > 0 =>
         /\ justUnwound.cbCalls = 1
         /\ justUnwound.cbArg = "first"
         /\ detectionState = PAUSED
         /\ justUnwound.videoPauseCalled
    /\ justUnwound.n = 0 =>
         /\ justUnwound.cbCalls = 0
         /\ ~justUnwound.autoPaused

\* a Legacy attempt with detections has unwound, paused
C4_Witness ==
  /\ variant = Legacy
  /\ justUnwound.valid
  /\ justUnwound.n > 0
  /\ justUnwound.cbCalls = 1
  /\ detectionState = PAUSED
  /\ videoPaused

\* C5: between a pause and the next call of resume() no attempt starts.
C5_NoStartWhilePaused ==
  justStarted.valid => ~justStarted.whilePaused

\* C6: after resume() on a paused controller the state is not IDLE before
\* the 1000ms settle delay has elapsed.
C6_SettleDelay ==
  settleUntil # NoTime => detectionState # IDLE

C8_NoCallbackWhilePaused ==
  \A i \in DOMAIN inflight : ~inflight[i].cbWhilePaused

\* C9 as stated: a fatal error pauses (state PAUSED, video paused) and is
\* re-thrown, so no frame is requested; any other error is absorbed, the
\* state is IDLE and the next frame is requested.
C9_Original ==
  justUnwound.valid =>
    /\ justUnwound.error = "fatal" =>
         /\ detectionState = PAUSED
         /\ videoPaused
         /\ justUnwound.thrown
         /\ ~framePending
    /\ justUnwound.error \in {"nonFatal", "unexpected"} =>
         /\ ~justUnwound.thrown
         /\ framePending
         /\ detectionState = IDLE

\* C9 amended: after an absorbed error the state is IDLE unless a pause or
\* dispose changed it during the attempt, and then that state is kept.
C9_ErrorClassification ==
  justUnwound.valid =>
    /\ justUnwound.error = "fatal" =>
         /\ detectionState = PAUSED
         /\ videoPaused
         /\ justUnwound.thrown
         /\ ~framePending
    /\ justUnwound.error \in {"nonFatal", "unexpected"} =>
         /\ ~justUnwound.thrown
         /\ framePending
         /\ ~justUnwound.pausedDuring => detectionState = IDLE
         /\ justUnwound.pausedDuring =>
              detectionState = justUnwound.beforeFinally

\* a fatal error has just escaped the frame callback
C9_Witness ==
  /\ justUnwound.valid
  /\ justUnwound.error = "fatal"
  /\ justUnwound.thrown
  /\ detectionState = PAUSED
  /\ ~disposed

\* C10: with fair frames and no pause() or dispose(), an attempt that failed
\* with a non-fatal or unexpected error is followed by a new attempt (as long
\* as the clock of the model can still reach the interval).
FailedAttemptUnwound ==
  /\ justUnwound.valid
  /\ justUnwound.error \in {"nonFatal", "unexpected"}
  /\ now + detectionIntervalMs <= EndTime

C10_LoopRecovers ==
  FailedAttemptUnwound ~> justStarted.valid

\* an attempt failed with an absorbed error while the clock can still advance
C10_Witness ==
  /\ justUnwound.valid
  /\ justUnwound.error = "nonFatal"
  /\ detectionState = IDLE
  /\ framePending
  /\ now + detectionIntervalMs <= EndTime

\* C11: after dispose() no attempt starts and no frame callback is scheduled,
\* whatever the controller was doing at the call.
C11_DisposeStopsLoop ==
  disposed =>
    /\ ~framePending
    /\ ~justStarted.valid

\* C12: when an attempt has left preprocessVideoFrameAndPredict, on every
\* exit path, each tensor it created (input, results, squeezed) has been
\* disposed exactly once, and no tensor is ever disposed twice.
C12_TensorsDisposedOnce ==
  /\ \A name \in DOMAIN tensors :
       /\ tensors[name].disposed <= 1
       /\ tensors[name].disposed = 1 => tensors[name].created
  /\ tpc = "done" => LiveTensors(tensors) = {}

\* the remapping threw after all three tensors were created, and the attempt
\* has unwound
C12_Witness ==
  /\ tpc = "done"
  /\ texc = "fatal"
  /\ \A name \in DOMAIN tensors : tensors[name].created

\* C13: when camera setup fails with NotAllowedError, initialize() has called
\* onCameraNotAllowed once and onCameraReady never, has not started the loop
\* (and none starts later) and has resolved; any other setup error is
\* re-thrown, with no callback and no loop.
C13_CameraNotAllowed ==
  /\ initOutcome.setup = "notAllowed" =>
       /\ initOutcome.notAllowed = 1
       /\ initOutcome.ready = 0
       /\ ~initOutcome.rejected
       /\ ~initOutcome.loop
       /\ inflight = <<>> /\ ~framePending /\ ~justStarted.valid
  /\ initOutcome.setup = "error" =>
       /\ initOutcome.rejected
       /\ initOutcome.notAllowed = 0
       /\ inflight = <<>> /\ ~framePending /\ ~justStarted.valid

\* camera access was denied and time has passed since
C13_Witness ==
  /\ initOutcome.setup = "notAllowed"
  /\ initOutcome.notAllowed = 1
  /\ initStatus = "denied"
  /\ now > StartTime

\* C14: a pause(options) call on a controller with a camera pauses camera
\* and detection (state PAUSED, video.pause() called) unless pauseCamera is
\* explicitly false; only then is the state DETECTION_PAUSED.
C14_PauseCameraDefault ==
  (justPaused.valid /\ cameraManager) =>
    IF justPaused.option = "false"
    THEN detectionState = DETECTION_PAUSED /\ ~justPaused.videoPauseCalled
    ELSE /\ detectionState = PAUSED
         /\ justPaused.videoPauseCalled
         /\ videoPaused

\* the decoder has returned
Decoded ==
  result.fn = "findValidDetections"

\* C15: the list returned by findValidDetections is sorted by descending
\* score, and detections of equal score appear in the order of their slots.
C15_SortedStable ==
  Decoded =>
    \A i, j \in DOMAIN result.list :
      i < j =>
        /\ result.list[i].score >= result.list[j].score
        /\ result.list[i].score = result.list[j].score =>
             result.list[i].slot < result.list[j].slot

\* the sort moved a later slot to the front
C15_Witness ==
  /\ Decoded
  /\ Len(result.list) = 2
  /\ result.list[1].slot > result.list[2].slot
  /\ result.list[1].score > result.list[2].score

\* the slots the decoder has to return, for valid global inputs
ExpectedSlots ==
  {i \in 1..MaxSlots :
     /\ i <= args.numDetections
     /\ \A k \in 1..5 : i <= Len(args.data[k])
     /\ IsFinite(args.data[5][i])
     /\ args.data[5][i] > args.scoreThreshold
     /\ \A k \in 1..4 : IsFinite(args.data[k][i])
     /\ args.data[3][i] >= 0
     /\ args.data[4][i] >= 0}

ValidDecoderInputs ==
  /\ Len(args.data) >= 5
  /\ args.numDetections \in 0..(MaxSlots + 2)
  /\ args.scoreThreshold \in 0..ScoreOne

\* C16: for valid global inputs findValidDetections returns exactly the slots
\* below min(declared count, shortest of the first five arrays) whose score is
\* finite and strictly above the threshold and whose box is finite with
\* width >= 0 and height >= 0, each once and with the values of its slot.
C16_ExactSlots ==
  (Decoded /\ ValidDecoderInputs) =>
    /\ {result.list[j].slot : j \in DOMAIN result.list} = ExpectedSlots
    /\ Len(result.list) = Cardinality(ExpectedSlots)
    /\ \A j \in DOMAIN result.list :
         LET d == result.list[j]
         IN  /\ d.score = args.data[5][d.slot]
             /\ d.boundingBox = <<args.data[1][d.slot], args.data[2][d.slot],
                                  args.data[3][d.slot], args.data[4][d.slot]>>

\* a slot whose score equals the threshold was left out and the slot after
\* it was returned
C16_Witness ==
  /\ Decoded
  /\ ValidDecoderInputs
  /\ Len(args.data[5]) = 2
  /\ args.data[5][1] = args.scoreThreshold
  /\ Len(result.list) = 1
  /\ result.list[1].slot = 2

\* C17 as stated: the result is empty and no slot is examined when fewer than
\* five arrays are supplied, when the threshold is outside [0,1] or when any
\* supplied array is empty.
C17_Original ==
  (/\ Decoded
   /\ \/ Len(args.data) < 5
      \/ ~(args.scoreThreshold \in 0..ScoreOne)
      \/ \E k \in DOMAIN args.data : Len(args.data[k]) = 0) =>
    /\ result.list = <<>>
    /\ result.examined = 0

\* C17 amended: the result is empty and no slot is examined when fewer than
\* five arrays are supplied, when the threshold is outside [0,1] or when one
\* of the first five arrays is empty.
C17_EmptyOnInvalidInput ==
  (/\ Decoded
   /\ \/ Len(args.data) < 5
      \/ ~(args.scoreThreshold \in 0..ScoreOne)
      \/ \E k \in DOMAIN args.data : k <= 5 /\ Len(args.data[k]) = 0) =>
    /\ result.list = <<>>
    /\ result.examined = 0

\* the threshold is above 1 and a slot that would pass was not examined
C17_Witness ==
  /\ Decoded
  /\ args.scoreThreshold > ScoreOne
  /\ Len(args.data) = 6
  /\ args.numDetections = MaxSlots + 1
  /\ \A k \in 1..6 : Len(args.data[k]) = MaxSlots
  /\ result.list = <<>>
  /\ result.examined = 0

\* C18: every returned detection has a finite angle: the value of its slot in
\* the angle array when that value exists and is finite, and 0 otherwise.
C18_AngleDefault ==
  Decoded =>
    \A j \in DOMAIN result.list :
      LET d == result.list[j]
          present == /\ Len(args.data) >= 6
                     /\ d.slot <= Len(args.data[6])
      IN  /\ IsFinite(d.angle)
          /\ (present /\ IsFinite(args.data[6][d.slot])) =>
               d.angle = args.data[6][d.slot]
          /\ ~(present /\ IsFinite(args.data[6][d.slot])) => d.angle = 0

\* one detection took its angle from the array, the other one got 0 because
\* the array holds NaN or ends before its slot
C18_Witness ==
  /\ Decoded
  /\ Len(args.data) = 6
  /\ Len(result.list) = 2
  /\ \E j \in 1..2 : result.list[j].angle = 5
  /\ \E j \in 1..2 : result.list[j].angle = 0

\* transformToCanvas has returned or thrown, for a non-empty list
Remapped ==
  /\ result.fn = "transformToCanvas"
  /\ Len(args.predictions) > 0

\* the predictions that pass the finiteness and sign checks
KeptPredictions ==
  {i \in DOMAIN args.predictions :
     LET p == args.predictions[i]
     IN  /\ \A k \in 1..4 : IsFinite(p.boundingBox[k])
         /\ IsFinite(p.score)
         /\ IsFinite(p.angle)
         /\ p.boundingBox[3] >= 0
         /\ p.boundingBox[4] >= 0}

\* the invalid global inputs as the claim lists them
ListedInvalidGlobals ==
  LET info == args.letterboxInfo
      canvas == args.canvasElement
  IN  \/ canvas.width <= 0 \/ canvas.height <= 0
      \/ ~IsFinite(info.scale) \/ LeZero(info.scale)
      \/ ~IsFinite(info.top) \/ ~IsFinite(info.left)
      \/ info.croppedWidth = Missing \/ LeZero(info.croppedWidth)
      \/ info.croppedHeight = Missing \/ LeZero(info.croppedHeight)

\* C19 as stated: transformToCanvas fails only for an invalid global input
\* of the list; otherwise it does not throw and returns one detection for
\* each prediction that passes the finiteness and sign checks.
C19_Original ==
  Remapped =>
    /\ result.threw => ListedInvalidGlobals
    /\ ~ListedInvalidGlobals =>
         /\ ~result.threw
         /\ {result.list[j].from : j \in DOMAIN result.list} = KeptPredictions
         /\ Len(result.list) = Cardinality(KeptPredictions)

\* the invalid global inputs of the amended claim: NaN counts as a missing
\* cropped size
InvalidGlobals ==
  \/ ListedInvalidGlobals
  \/ args.letterboxInfo.croppedWidth = NaN
  \/ args.letterboxInfo.croppedHeight = NaN

\* the remapping of a prediction throws: a cropped size that is not finite
RemapThrows ==
  \/ ~IsFinite(args.letterboxInfo.croppedWidth)
  \/ ~IsFinite(args.letterboxInfo.croppedHeight)

\* C19 amended: for a non-empty list transformToCanvas fails exactly when a
\* global input is invalid (the list of the claim, or a cropped size that is
\* NaN); otherwise it returns, in order, one remapped detection for each
\* prediction that passes the finiteness and sign checks and whose remapping
\* does not throw; an infinite cropped size drops every prediction.
C19_RemapOrDrop ==
  Remapped =>
    /\ result.threw <=> InvalidGlobals
    /\ ~result.threw =>
         /\ {result.list[j].from : j \in DOMAIN result.list} =
              IF RemapThrows THEN {} ELSE KeptPredictions
         /\ \A i, j \in DOMAIN result.list :
              i < j => result.list[i].from < result.list[j].from
         /\ \A j \in DOMAIN result.list :
              LET d == result.list[j]
                  p == args.predictions[d.from]
                  info == args.letterboxInfo
                  canvas == args.canvasElement
                  factor == Min2(canvas.width \div info.croppedWidth,
                                 canvas.height \div info.croppedHeight)
              IN  /\ d.score = p.score
                  /\ d.angle = p.angle * RADIANS_TO_DEGREES
                  /\ d.boundingBox =
                       <<((p.boundingBox[1] - info.left) \div info.scale)
                           * factor,
                         ((p.boundingBox[2] - info.top) \div info.scale)
                           * factor,
                         (p.boundingBox[3] \div info.scale) * factor,
                         (p.boundingBox[4] \div info.scale) * factor>>

\* of two predictions the first was dropped and the second was remapped
C19_Witness ==
  /\ Remapped
  /\ ~result.threw
  /\ Len(args.predictions) = 2
  /\ Len(result.list) = 1
  /\ result.list[1].from = 2
  /\ result.list[1].boundingBox # args.predictions[2].boundingBox

\* calculateCropRegion has returned
Cropped ==
  result.fn = "calculateCropRegion"

\* the video is relatively wider (1), relatively taller (-1) or of the same
\* aspect ratio (0) as the canvas
RelativeShape ==
  LET l == args.video.videoWidth * args.canvas.height
      r == args.canvas.width * args.video.videoHeight
  IN  IF l > r THEN 1 ELSE IF l < r THEN 0 - 1 ELSE 0

\* C20: for all positive video and canvas dimensions the region returned by
\* calculateCropRegion lies inside the video frame, is centred on each axis,
\* has the aspect ratio of the canvas, crops only the width when the video
\* is relatively wider, only the height when it is relatively taller, and
\* is the full frame when the aspect ratios are equal.
C20_CropRegion ==
  Cropped =>
    LET r == result.region
        vw == Frac(args.video.videoWidth)
        vh == Frac(args.video.videoHeight)
    IN  /\ FracLeq(Frac(0), r.cropX)
        /\ FracLeq(Frac(0), r.cropY)
        /\ FracLeq(FracAdd(r.cropX, r.croppedWidth), vw)
        /\ FracLeq(FracAdd(r.cropY, r.croppedHeight), vh)
        /\ FracEq(FracAdd(FracMul(Frac(2), r.cropX), r.croppedWidth), vw)
        /\ FracEq(FracAdd(FracMul(Frac(2), r.cropY), r.croppedHeight), vh)
        /\ FracEq(FracMul(r.croppedWidth, Frac(args.canvas.height)),
                  FracMul(r.croppedHeight, Frac(args.canvas.width)))
        /\ RelativeShape = 1 =>
             /\ FracLess(r.croppedWidth, vw)
             /\ FracEq(r.croppedHeight, vh)
        /\ RelativeShape = 0 - 1 =>
             /\ FracLess(r.croppedHeight, vh)
             /\ FracEq(r.croppedWidth, vw)
        /\ RelativeShape = 0 =>
             /\ FracEq(r.cropX, Frac(0))
             /\ FracEq(r.cropY, Frac(0))
             /\ FracEq(r.croppedWidth, vw)
             /\ FracEq(r.croppedHeight, vh)

\* a relatively wider video was cropped to a region of fractional width
\* that starts at a positive offset
C20_Witness ==
  /\ Cropped
  /\ RelativeShape = 1
  /\ FracLess(Frac(0), result.region.cropX)
  /\ result.region.croppedWidth[1] % result.region.croppedWidth[2] # 0

\* getCachedCropRegion has just returned a region
CacheRead ==
  /\ result.fn = "getCachedCropRegion"
  /\ result.called
  /\ ~result.threw

\* C21: after any sequence of attempts, dimension changes and dispose(), the
\* region getCachedCropRegion returns is the one calculateCropRegion computes
\* from the current video and canvas dimensions, and it is recomputed only
\* when no region was cached or the dimensions differ from the recorded ones.
C21_CacheCoherent ==
  CacheRead =>
    /\ result.returned = <<calculateCropRegion(args.video, args.canvas)>>
    /\ result.recomputed =>
         \/ result.before.cachedCropRegion = Undefined
         \/ result.before.lastVideoDimensions #
              <<[width |-> args.video.videoWidth,
                 height |-> args.video.videoHeight]>>
         \/ result.before.lastCanvasDimensions #
              <<[width |-> args.canvas.width, height |-> args.canvas.height]>>
    /\ ~result.recomputed => result.cache = result.before

\* a region cached for other canvas dimensions was replaced by a read
C21_Witness ==
  /\ CacheRead
  /\ result.recomputed
  /\ result.before.cachedCropRegion # Undefined
  /\ result.before.lastVideoDimensions =
       <<[width |-> args.video.videoWidth, height |-> args.video.videoHeight]>>
  /\ result.before.cachedCropRegion # result.returned

\* letterboxTransform has run on a positive image size and target shape
Letterboxed ==
  /\ result.fn = "letterboxTransform"
  /\ args.originalWidth > 0
  /\ args.originalHeight > 0
  /\ args.letterboxShape[1] > 0
  /\ args.letterboxShape[2] > 0

\* C22: for positive integer source sizes and target shapes the scale is
\* min(targetW/srcW, targetH/srcH), the scaled sizes do not exceed the
\* target, calculatePadding does not fail, the paddings and the scaled size
\* add up to the target on each axis, top = floor(padH/2) and
\* left = floor(padW/2).
C22_LetterboxSizes ==
  Letterboxed =>
    LET targetHeight == args.letterboxShape[1]
        targetWidth == args.letterboxShape[2]
        byWidth == <<targetWidth, args.originalWidth>>
        byHeight == <<targetHeight, args.originalHeight>>
        sc == result.scale
        pad == result.padding
    IN  /\ result.threw = "none"
        /\ FracLeq(sc.scaleRatio, byWidth)
        /\ FracLeq(sc.scaleRatio, byHeight)
        /\ FracEq(sc.scaleRatio, byWidth) \/ FracEq(sc.scaleRatio, byHeight)
        /\ sc.scaledWidth <= targetWidth
        /\ sc.scaledHeight <= targetHeight
        /\ pad.paddingList[1][1] + pad.paddingList[1][2] + sc.scaledHeight
             = targetHeight
        /\ pad.paddingList[2][1] + pad.paddingList[2][2] + sc.scaledWidth
             = targetWidth
        /\ pad.top = pad.paddingList[1][1]
        /\ pad.left = pad.paddingList[2][1]
        /\ 2 * pad.top <= targetHeight - sc.scaledHeight
        /\ targetHeight - sc.scaledHeight < 2 * pad.top + 2
        /\ 2 * pad.left <= targetWidth - sc.scaledWidth
        /\ targetWidth - sc.scaledWidth < 2 * pad.left + 2

\* an image was scaled by a fraction, its width was rounded down and the
\* horizontal padding is uneven
C22_Witness ==
  /\ Letterboxed
  /\ result.threw = "none"
  /\ result.scale.scaleRatio[1] % result.scale.scaleRatio[2] # 0
  /\ result.padding.paddingList[2][1] < result.padding.paddingList[2][2]
  /\ FracLess(Frac(result.scale.scaledWidth),
              FracMul(Frac(args.originalWidth), result.scale.scaleRatio))

\* an estimation was asked for a class whose name, in some letter-casing,
\* has been registered
EstimatedRegistered ==
  /\ result.fn = "registry"
  /\ result.last.op = "estimate"
  /\ \E name \in ClassNames :
       /\ Len(name) = Len(result.last.className)
       /\ \A i \in DOMAIN name :
            \/ name[i] = result.last.className[i]
            \/ {name[i], result.last.className[i]} = {"a", "A"}
       /\ name \in DOMAIN result.registry

\* C23: the registry is case-insensitive on store and on lookup: after a
\* size is registered under a name, an estimation that names the class in
\* any letter-casing uses that entry.
C23_CaseInsensitive ==
  EstimatedRegistered =>
    /\ Len(result.last.used) = 1
    /\ \A i \in DOMAIN result.last.className :
         \/ result.last.used[1][i] = result.last.className[i]
         \/ {result.last.used[1][i], result.last.className[i]} = {"a", "A"}

\* a registration call was made
Registered ==
  /\ result.fn = "registry"
  /\ result.last.op \in {"registerObjectSize", "setObjectSize"}

\* the class name is empty or white space only
BlankName ==
  \A i \in DOMAIN result.last.className : result.last.className[i] = " "

\* v is a number strictly greater than 0
StrictlyPositive(v) ==
  v \notin {NaN, NegInf, Missing} /\ (v = PosInf \/ v > 0)

\* the registry holds a key that is the name in some letter-casing
KnownName ==
  \E k \in DOMAIN result.last.before :
    /\ Len(k) = Len(result.last.className)
    /\ \A i \in DOMAIN k :
         \/ k[i] = result.last.className[i]
         \/ {k[i], result.last.className[i]} = {"a", "A"}

\* C24: registerObjectSize and setObjectSize fail, leaving the registry
\* unchanged, when the class name is empty or white space only or when
\* width or height is not strictly positive; a successful registration of
\* a new name adds exactly one class, and re-registering an existing name
\* replaces its entry without changing the number of classes.
C24_RegistrationValidated ==
  Registered =>
    LET last == result.last
        count == Cardinality(getRegisteredClasses(result.registry))
        countBefore == Cardinality(getRegisteredClasses(last.before))
    IN  /\ (\/ BlankName
            \/ ~StrictlyPositive(last.width)
            \/ ~StrictlyPositive(last.height)) =>
             /\ last.threw # "none"
             /\ result.registry = last.before
        /\ last.threw = "none" /\ ~KnownName => count = countBefore + 1
        /\ last.threw = "none" /\ KnownName =>
             /\ count = countBefore
             /\ \E k \in DOMAIN result.registry :
                  /\ result.registry[k].width = last.width
                  /\ result.registry[k].height = last.height

\* a batch wrapper or add3DToDetection has run
AddedToDetections ==
  result.fn = "addToDetections"

\* C25: the batch estimation wrappers never throw for a per-detection
\* failure: the list they return has the length of the list they were given
\* and a detection whose box has zero width or height is returned
\* unmodified, with depth undefined.
C25_WrappersNeverThrow ==
  AddedToDetections =>
    /\ ~result.threw
    /\ Len(result.list) = Len(result.given)
    /\ \A i \in DOMAIN result.given :
         (\/ result.given[i].boundingBox[3] = XNum(0)
          \/ result.given[i].boundingBox[4] = XNum(0)) =>
           /\ i \in DOMAIN result.list
           /\ result.list[i] = result.given[i]
           /\ result.list[i].depth = <<>>

\* a direct estimation took the known-size path on a box of positive,
\* finite width and height with a positive focal length
KnownSizeEstimate ==
  /\ result.fn = "estimate"
  /\ ~result.threw
  /\ result.path = "known"
  /\ XIsFinite(args.detections[1].boundingBox[3])
  /\ XLess(XNum(0), args.detections[1].boundingBox[3])
  /\ XLess(XNum(0), args.detections[1].boundingBox[4])

\* the focal length the estimator of the call works with
FocalLengthUsed ==
  IF args.module = ThreeDHelper
  THEN XMul(<<4, 5>>, args.options.imageWidth)
  ELSE args.options.focalLength

\* realWidth * focalLength / boxWidth and realHeight * focalLength / boxHeight
DepthFromWidth ==
  XDiv(XMul(args.realSize[1].width, FocalLengthUsed),
       args.detections[1].boundingBox[3])

DepthFromHeight ==
  XDiv(XMul(args.realSize[1].height, FocalLengthUsed),
       args.detections[1].boundingBox[4])

\* the two depths differ by at most 25% of the larger one
WithinTolerance ==
  LET larger == XMax(DepthFromWidth, DepthFromHeight)
  IN  XLeq(XMul(XNum(4), XAbs(XSub(DepthFromWidth, DepthFromHeight))), larger)

\* the depth the claim describes: the average within the tolerance, else
\* the depth from the height for a box taller than wide and the depth from
\* the width otherwise
FusedDepth ==
  IF WithinTolerance
  THEN XDiv(XAdd(DepthFromWidth, DepthFromHeight), XNum(2))
  ELSE IF XLess(args.detections[1].boundingBox[3],
                args.detections[1].boundingBox[4])
  THEN DepthFromHeight
  ELSE DepthFromWidth

\* C26 as stated: on the known-size path the estimated depth is the fused
\* depth, in every estimator.
C26_Original ==
  KnownSizeEstimate => result.depth = FusedDepth

\* C26 amended: estimate3DInfo of 3d-helper.ts returns the fused depth;
\* estimateDepthFromSize of depth-estimator.ts returns the smaller of the
\* two depths limited to [0.1, 100], and estimate3DInfo of part_007 the
\* smaller of the two limited to [0.01, 10].
C26_KnownSizeDepth ==
  KnownSizeEstimate =>
    LET smaller == XMin(DepthFromWidth, DepthFromHeight)
    IN  /\ args.module = ThreeDHelper => result.depth = FusedDepth
        /\ args.module = DepthEstimator =>
             result.depth = XMax(<<1, 10>>, XMin(XNum(100), smaller))
        /\ args.module = ThreeDEstimator =>
             result.depth = XMax(<<1, 100>>, XMin(XNum(10), smaller))

\* 3d-helper.ts: the depths disagree by more than 25% on a box taller than
\* wide, and the depth from the height was returned
C26_Witness ==
  /\ KnownSizeEstimate
  /\ args.module = ThreeDHelper
  /\ ~WithinTolerance
  /\ XLess(args.detections[1].boundingBox[3],
           args.detections[1].boundingBox[4])
  /\ result.depth = DepthFromHeight
  /\ result.depth # DepthFromWidth

\* a direct estimation took the relative path on a box of positive width
\* and height with a positive focal length
RelativeEstimate ==
  /\ result.fn = "estimate"
  /\ ~result.threw
  /\ result.path = "relative"

AtLogMemoryUsage ==
  tpc = "log"

\* preprocessVideoFrameAndPredict has returned the detections: detectObjects
\* goes on to handleDetectionResults, which dispatches to the callback
AtDispatch ==
  /\ tpc = "done"
  /\ texc = "none"

\* C28: within one detection attempt logMemoryUsage runs only after the
\* batched input tensor, the raw model output tensor and the squeezed
\* intermediate have been disposed, and the dispatch to the detection
\* callback runs after both.
C28_LogAfterDisposal ==
  /\ AtLogMemoryUsage => LiveTensors(tensors) = {}
  /\ AtDispatch => LiveTensors(tensors) = {}

\* onDetection was called with element 0 of the remapped list
DispatchedFirst ==
  /\ result.fn = "dispatch"
  /\ result.dispatched = "first"

\* C29: the detection passed to onDetection is one with the highest score
\* among the detections of the frame that survive decoding and remapping:
\* transformToCanvas keeps the relative order of the detections it does not
\* drop, so element 0 of the remapped list is a maximum-score detection.
C29_DispatchesHighestScore ==
  result.fn \in {"predict", "dispatch"} =>
    /\ \A i, j \in DOMAIN result.list :
         i < j => /\ result.list[i].from < result.list[j].from
                  /\ result.list[i].score >= result.list[j].score
    /\ \A i \in DOMAIN result.list :
         result.list[i].score = result.decoded[result.list[i].from].score
    /\ DispatchedFirst =>
         /\ result.list # <<>>
         /\ \A i \in DOMAIN result.list :
              result.list[1].score >= result.list[i].score

\* two detections of different scores survived, given in ascending order of
\* score by the model, and the one dispatched has the strictly higher score
C29_Witness ==
  /\ DispatchedFirst
  /\ Len(result.list) = 2
  /\ result.list[1].score > result.list[2].score
  /\ args.data[5][1] < args.data[5][2]

\* a fatal error has propagated out of the frame callback
FatalPropagated ==
  rethrown

\* C30: after a fatal error has propagated out of the frame callback the
\* callback is never rescheduled: no frame is requested, no attempt is in
\* flight and none starts, for the lifetime of the controller, even after
\* resume() has moved the state back to IDLE.
C30_NoRestartAfterFatal ==
  FatalPropagated =>
    /\ ~framePending
    /\ inflight = <<>>
    /\ justStarted = NoStart

\* the error propagated, resume() was called and its timer has set the
\* state back to IDLE, with the interval elapsed and the managers in place
C30_Witness ==
  /\ FatalPropagated
  /\ resumeCalls > 0
  /\ timers = <<>>
  /\ pendingPlays = 0
  /\ detectionState = IDLE
  /\ cameraManager
  /\ canvasManager
  /\ ~disposed
  /\ now - lastDetectionTimestamp >= detectionIntervalMs

====
